---- MODULE Spec2Model ----
(***************************************************************************)
(* Airtime: the podcast processing workflow (podcastProcessor), the retry  *)
(* handler (podcastRetryJob), the Convex project store (convex/projects.ts) *)
(* with its per-user project counters, and the rename server action.       *)
(*                                                                         *)
(* Specifications:                                                         *)
(*   Spec        one podcastProcessor run on one project, with injected    *)
(*               step faults and the step runtime's choice of invocation.  *)
(*   SpecStore   podcastProcessor, podcastRetryJob and direct calls of the *)
(*               public store mutations, interleaved on one project.       *)
(*   SpecCounter concurrent createProject / deleteProject transactions of  *)
(*               one user under the store's optimistic conflict retry.     *)
(*   SpecRename  updateDisplayNameAction (both versions) on one project.   *)
(***************************************************************************)
EXTENDS Integers, Sequences, FiniteSets, TLC

VARIABLES
    project,          \* the project document (convex/schema.ts projects table)
    event,            \* data of the podcast/uploaded trigger event
    pc,               \* podcastProcessor: the step the run is at
    activeStepLabel,  \* podcastProcessor: let activeStepLabel
    results,          \* podcastProcessor: settled state of each generate-<job> step
    summaryCache,     \* buildJobs: summaryCache of the current invocation is set
    summaryCalls,     \* number of generateSummary invocations in this run
    stepLog,          \* names of the steps begun so far, in order
    faultable,        \* step names at which the environment may inject a fault
    injected,         \* step names at which a fault was injected
    thrownAt,         \* the step whose error reached the catch block, or "none"
    outcome,          \* "running", "returned", "rethrown" or "rejected"
    raised,           \* the error thrown to the caller: the step it came from
    invocations,      \* times the host scheduler has invoked podcastProcessor
    rpc,              \* podcastRetryJob: the step the run is at
    routcome,         \* podcastRetryJob: "idle", "running", "returned", "rethrown"
    calls,            \* number of direct store calls made so far
    lastCall,         \* the last direct store call: op, caller, owner, outcome
    rows,             \* counter model: the user's project rows
    counter,          \* counter model: userProjectCounts row of the user
    registry,         \* counter model: userProjectCountsRegistry row exists
    txn,              \* counter model: in-flight mutations (transactions)
    lastRename,       \* rename model: the last updateDisplayNameAction call
    words,            \* mapWordsToWordSegments: the words argument
    appended,         \* number of times the words argument was extended
    segments,         \* mapWordsToWordSegments: the returned segments
    poll,             \* transcribeWithAssemblyAI: the state of one call
    lastSummary,      \* generateSummary: the last call and what it returned
    lastTimestamp,    \* generateYouTubeTimestamps: a segment start and its label
    normalized,       \* transcribeWithAssemblyAI: provider segments and the result's
    act               \* server actions: the plan, its limit and the calls in flight

wfVars == <<event, pc, activeStepLabel, results, summaryCache, summaryCalls,
            stepLog, faultable, injected, thrownAt, outcome, raised, invocations>>
retryVars == <<rpc, routcome>>
callVars == <<calls, lastCall>>
ctrVars == <<rows, counter, registry, txn, act>>
libVars == <<words, appended, segments, poll, lastSummary, lastTimestamp,
            normalized>>
vars == <<project, event, pc, activeStepLabel, results, summaryCache,
          summaryCalls, stepLog, faultable, injected, thrownAt, outcome,
          raised, invocations, rpc, routcome,
          calls, lastCall, rows, counter, registry, txn, lastRename, words,
          appended, segments, poll, lastSummary, lastTimestamp, normalized, act>>

(***************************************************************************)
(* Bounds                                                                  *)
(***************************************************************************)
MaxDirectCalls == 1
MaxCreators == 3
MaxDeletes == 2
MaxNameRuns == 3
MaxAppends == 4
MaxTextRuns == 2
MaxSeconds == 4000
MaxSentences == 2
MaxActors == 2
MaxLimit == 2

(***************************************************************************)
(* Identities                                                              *)
(***************************************************************************)
Owner == "alice"
Stranger == "mallory"
NoId == "none"
Ids == {Owner, Stranger, NoId}

(***************************************************************************)
(* Strings, run-length encoded: a string is a sequence of runs [ch, n],    *)
(* n >= 1 copies of the character ch.                                      *)
(***************************************************************************)
Run(c, k) == [ch |-> c, n |-> k]

RECURSIVE StrLen(_)
StrLen(s) == IF s = <<>> THEN 0 ELSE Head(s).n + StrLen(Tail(s))

IsSpace(c) == c = " "

RECURSIVE trimStart(_)
trimStart(s) ==
    IF s = <<>> THEN <<>>
    ELSE IF IsSpace(Head(s).ch) THEN trimStart(Tail(s)) ELSE s

RECURSIVE trimEnd(_)
trimEnd(s) ==
    IF s = <<>> THEN <<>>
    ELSE IF IsSpace(s[Len(s)].ch) THEN trimEnd(SubSeq(s, 1, Len(s) - 1)) ELSE s

trim(s) == trimEnd(trimStart(s))

FileName == <<Run("a", 3)>>

(***************************************************************************)
(* The project document and the store's validators                        *)
(***************************************************************************)
JobKeys == {"summary", "socialPosts", "titles", "hashtags", "keyMoments",
            "youtubeTimestamps"}
JobErrorKey == JobKeys \cup {"transcript", "general"}

\* args of saveGeneratedContent other than projectId and systemUserId
SaveGeneratedContentArgs ==
    {"keyMoments", "summary", "socialPosts", "hashtags", "title",
     "youtubeTimestamps"}

\* fields of args.jobErrors accepted by saveJobErrors
SaveJobErrorsArgs ==
    {"keyMoments", "summary", "socialPosts", "titles", "hashtags",
     "youtubeTimestamps"}

\* generated-content fields of the projects table
SchemaContentFields ==
    {"keyMoments", "summary", "socialPosts", "title", "youtubeTimeStamps"}

Statuses == {"pending", "uploading", "processing", "completed", "failed"}
TranscriptionStatuses == {"pending", "uploading", "processing", "completed", "failed"}
ContentGenerationStatuses == {"pending", "running", "completed", "failed"}

\* the document createProject inserts
NewProject ==
    [exists |-> TRUE,
     userId |-> Owner,
     status |-> "uploading",
     jobStatus |-> [transcription |-> "uploading", contentGeneration |-> "pending"],
     displayName |-> FileName,
     transcript |-> FALSE,
     content |-> {},
     jobErrors |-> {},
     error |-> "none",
     deletedAt |-> FALSE,
     completedAt |-> FALSE]

Result(o, p) == [outcome |-> o, project |-> p]

\* identity?.subject ?? args.systemUserId
\* a caller id that prefers the client-supplied systemUserId
CallerIdSystemFirst(identity, systemUserId) ==
    IF systemUserId # NoId THEN systemUserId ELSE identity

CallerId(identity, systemUserId) ==
    IF identity # NoId THEN identity ELSE systemUserId

\* the guard shared by the workflow-facing mutations
Guard(p, identity, systemUserId) ==
    IF ~p.exists THEN "not_found"
    ELSE IF CallerId(identity, systemUserId) = NoId
            \/ p.userId # CallerId(identity, systemUserId)
         THEN "unauthorized"
         ELSE "ok"

\* updateProjectStatus refusing to set the status the project already has
updateProjectStatusOnce(p, identity, systemUserId, status) ==
    IF Guard(p, identity, systemUserId) # "ok"
    THEN Result(Guard(p, identity, systemUserId), p)
    ELSE IF p.status = status THEN Result("conflict", p)
    ELSE Result("ok", [p EXCEPT !.status = status,
                                !.completedAt = IF status = "completed" THEN TRUE ELSE @])

updateProjectStatus(p, identity, systemUserId, status) ==
    IF Guard(p, identity, systemUserId) # "ok"
    THEN Result(Guard(p, identity, systemUserId), p)
    ELSE Result("ok", [p EXCEPT !.status = status,
                                !.completedAt = IF status = "completed" THEN TRUE ELSE @])

saveTranscript(p, identity, systemUserId) ==
    IF Guard(p, identity, systemUserId) # "ok"
    THEN Result(Guard(p, identity, systemUserId), p)
    ELSE Result("ok", [p EXCEPT !.transcript = TRUE])

\* transcription and contentGeneration are "none" when the argument is absent
\* updateJobStatus writing the arguments as the whole jobStatus
updateJobStatusOverwrite(p, identity, systemUserId, transcription, contentGeneration) ==
    IF Guard(p, identity, systemUserId) # "ok"
    THEN Result(Guard(p, identity, systemUserId), p)
    ELSE Result("ok",
           [p EXCEPT !.jobStatus = [transcription |-> transcription,
                                    contentGeneration |-> contentGeneration]])

updateJobStatus(p, identity, systemUserId, transcription, contentGeneration) ==
    IF Guard(p, identity, systemUserId) # "ok"
    THEN Result(Guard(p, identity, systemUserId), p)
    ELSE Result("ok",
           [p EXCEPT !.jobStatus =
               [transcription |-> IF transcription # "none" THEN transcription
                                  ELSE p.jobStatus.transcription,
                contentGeneration |-> IF contentGeneration # "none" THEN contentGeneration
                                      ELSE p.jobStatus.contentGeneration]])

\* content: the set of content field names present in the call's arguments
saveGeneratedContent(p, identity, systemUserId, content) ==
    IF ~(content \subseteq SaveGeneratedContentArgs)
    THEN Result("validation_error", p)
    ELSE IF Guard(p, identity, systemUserId) # "ok"
    THEN Result(Guard(p, identity, systemUserId), p)
    ELSE IF ~(content \subseteq SchemaContentFields)
    THEN Result("schema_error", p)
    ELSE Result("ok", [p EXCEPT !.content = @ \cup content])

\* step is the value of args.step
recordError(p, identity, systemUserId, step) ==
    IF Guard(p, identity, systemUserId) # "ok"
    THEN Result(Guard(p, identity, systemUserId), p)
    ELSE Result("ok", [p EXCEPT !.status = "failed", !.error = step])

\* keys: the set of keys present in args.jobErrors
saveJobErrors(p, identity, systemUserId, keys) ==
    IF ~(keys \subseteq SaveJobErrorsArgs)
    THEN Result("validation_error", p)
    ELSE IF Guard(p, identity, systemUserId) # "ok"
    THEN Result(Guard(p, identity, systemUserId), p)
    ELSE Result("ok", [p EXCEPT !.jobErrors = keys])

\* the guard shared by the user-facing mutations (identity and args.userId)
UserGuard(p, identity, userId) ==
    IF identity = NoId \/ identity # userId THEN "unauthorized"
    ELSE IF ~p.exists THEN "not_found"
    ELSE IF p.userId # identity THEN "unauthorized"
    ELSE "ok"

\* deleteProject removing the document, as the deprecated deleteProjects does
deleteProjectHard(p, identity, userId) ==
    IF UserGuard(p, identity, userId) # "ok"
    THEN Result(UserGuard(p, identity, userId), p)
    ELSE Result("ok", [p EXCEPT !.exists = FALSE])

\* the project part of deleteProject; the counter part is deleteProjectTxn
deleteProject(p, identity, userId) ==
    IF UserGuard(p, identity, userId) # "ok"
    THEN Result(UserGuard(p, identity, userId), p)
    ELSE IF p.deletedAt THEN Result("ok", p)
    ELSE Result("ok", [p EXCEPT !.deletedAt = TRUE])

\* updateProjectDisplayName refusing the rename while the project is processed
updateProjectDisplayNameWhenIdle(p, identity, userId, displayName) ==
    IF UserGuard(p, identity, userId) # "ok"
    THEN Result(UserGuard(p, identity, userId), p)
    ELSE IF p.status = "processing" THEN Result("conflict", p)
    ELSE Result("ok", [p EXCEPT !.displayName = trim(displayName)])

updateProjectDisplayName(p, identity, userId, displayName) ==
    IF UserGuard(p, identity, userId) # "ok"
    THEN Result(UserGuard(p, identity, userId), p)
    ELSE Result("ok", [p EXCEPT !.displayName = trim(displayName)])

\* legacy deleteProjects: returns null for a missing or foreign project
deleteProjects(p, userId) ==
    IF ~p.exists \/ p.userId # userId THEN Result("null", p)
    ELSE Result("ok", [p EXCEPT !.exists = FALSE])

\* legacy updateProjectDisplayName: returns for a missing or foreign project;
\* its patch writes `name`, which the projects table does not define
legacyUpdateProjectDisplayName(p, userId) ==
    IF ~p.exists \/ p.userId # userId THEN Result("null", p)
    ELSE Result("schema_error", p)

\* a query's answer: the documents it returns (none for null)
QueryResult(o, docs) == [outcome |-> o, docs |-> docs]

\* legacy getProjectById: ctx.db.get(id), for any caller
legacyGetProjectById(p) ==
    QueryResult("ok", IF p.exists THEN {p} ELSE {})

getProjectById(p, identity) ==
    IF identity = NoId THEN QueryResult("ok", {})
    ELSE IF ~p.exists \/ p.userId # identity THEN QueryResult("ok", {})
    ELSE IF p.deletedAt THEN QueryResult("ok", {})
    ELSE QueryResult("ok", {p})

getProject(p, identity) ==
    IF identity = NoId THEN QueryResult("ok", {})
    ELSE IF ~p.exists \/ p.userId # identity THEN QueryResult("ok", {})
    ELSE IF p.deletedAt THEN QueryResult("ok", {})
    ELSE QueryResult("ok", {p})

\* the page of the by_user_and_deleted_at index with deletedAt undefined
listUserProjects(p, identity, userId) ==
    IF identity = NoId \/ identity # userId THEN QueryResult("unauthorized", {})
    ELSE QueryResult("ok", IF p.exists /\ p.userId = userId /\ ~p.deletedAt
                           THEN {p} ELSE {})

(***************************************************************************)
(* podcastProcessor                                                        *)
(***************************************************************************)
Plans == {"free", "pro", "ultra"}

\* const plan = userPlan is one of the three names ? userPlan : 'free'
NormalizePlan(userPlan) == IF userPlan \in Plans THEN userPlan ELSE "free"

\* buildJobs without the plan conditions: every job for every plan
buildJobsUngated(plan) ==
    <<"summary", "socialPosts", "titles", "hashtags", "keyMoments",
      "youtubeTimestamps">>

\* the keys of the jobs buildJobs returns, in order
buildJobs(plan) ==
    <<"summary">>
    \o (IF plan = "pro" \/ plan = "ultra"
        THEN <<"socialPosts", "titles", "hashtags">> ELSE <<>>)
    \o (IF plan = "ultra" THEN <<"keyMoments", "youtubeTimestamps">> ELSE <<>>)

Range(s) == {s[i] : i \in 1..Len(s)}

Jobs == Range(buildJobs(NormalizePlan(event.plan)))

\* the jobs whose run() awaits getSummary()
SummaryReaders == {"summary", "socialPosts", "titles"}

getErrorKey(label) ==
    IF label \in {"generate-transcription", "save-transcription",
                  "update-job-status-transcription"}
    THEN "transcript"
    ELSE "general"

\* entry validation: event.data fields are non-blank strings
ValidEvent(e) == e.projectId # "" /\ e.fileUrl # "" /\ e.userId # ""

Events ==
    [projectId : {"p1", ""}, fileUrl : {"blob", ""}, userId : {Owner, ""},
     plan : Plans \cup {"team"}]

NoResults == [j \in JobKeys |-> "none"]

\* a race in place of the join: the first settled generate step resolves it
JoinedAny == \E j \in Jobs : results[j] \in {"fulfilled", "rejected"}

\* Promise.allSettled has resolved: every generate step has settled
Joined == \A j \in Jobs : results[j] \in {"fulfilled", "rejected"}

\* the merge of lines 487-532
generatedContent == {j \in Jobs : results[j] = "fulfilled"}
jobErrors == {j \in Jobs : results[j] = "rejected"}

AfterMerge ==
    IF generatedContent # {} THEN "save-generated-content"
    ELSE IF jobErrors # {} THEN "save-job-errors"
    ELSE "update-job-status-generation-completed"

AfterSaveContent ==
    IF jobErrors # {} THEN "save-job-errors"
    ELSE "update-job-status-generation-completed"

StepLabels ==
    {"update-project-status", "update-job-status-transcription",
     "generate-transcription", "save-transcription",
     "update-job-status-generation-running", "save-generated-content",
     "save-job-errors", "update-job-status-generation-completed",
     "update-project-status-completed"}

\* the steps that follow the fan-out
PostSteps ==
    {"save-generated-content", "save-job-errors",
     "update-job-status-generation-completed", "update-project-status-completed"}

\* the fault choices of a step: a fault is injected only where allowed
Faults(label) == IF label \in faultable THEN BOOLEAN ELSE {FALSE}

\* a step of the try block: it throws when a fault is injected or when the
\* store rejects the call, and control passes to the catch block
TryStep(label, next, r, fault) ==
    /\ pc = label
    /\ activeStepLabel' = label
    /\ stepLog' = Append(stepLog, label)
    /\ injected' = IF fault THEN injected \cup {label} ELSE injected
    /\ IF fault \/ r.outcome # "ok"
       THEN /\ pc' = "save-job-error"
            /\ thrownAt' = label
            /\ project' = project
       ELSE /\ pc' = next
            /\ thrownAt' = thrownAt
            /\ project' = r.project

Entry ==
    /\ pc = "entry"
    /\ IF ValidEvent(event)
       THEN pc' = "update-project-status" /\ outcome' = "running"
       ELSE pc' = "done" /\ outcome' = "rejected"
    /\ UNCHANGED <<project, event, invocations, activeStepLabel, results, summaryCache,
                   summaryCalls, stepLog, faultable, injected, thrownAt, raised>>

StepUpdateProjectStatus ==
    /\ \E fault \in Faults("update-project-status") :
         TryStep("update-project-status", "update-job-status-transcription",
                 updateProjectStatus(project, NoId, event.userId, "processing"),
                 fault)
    /\ UNCHANGED <<event, invocations, results, summaryCache, summaryCalls, faultable, outcome,
                   raised>>

StepUpdateJobStatusTranscription ==
    /\ \E fault \in Faults("update-job-status-transcription") :
         TryStep("update-job-status-transcription", "generate-transcription",
                 updateJobStatus(project, NoId, event.userId, "processing", "none"),
                 fault)
    /\ UNCHANGED <<event, invocations, results, summaryCache, summaryCalls, faultable, outcome,
                   raised>>

\* transcribeWithAssemblyAI either returns a transcript or throws
StepGenerateTranscription ==
    /\ \E fault \in Faults("generate-transcription") :
         TryStep("generate-transcription", "save-transcription",
                 Result("ok", project), fault)
    /\ UNCHANGED <<event, invocations, results, summaryCache, summaryCalls, faultable, outcome,
                   raised>>

StepSaveTranscription ==
    /\ \E fault \in Faults("save-transcription") :
         TryStep("save-transcription", "update-job-status-generation-running",
                 saveTranscript(project, NoId, event.userId), fault)
    /\ UNCHANGED <<event, invocations, results, summaryCache, summaryCalls, faultable, outcome,
                   raised>>

\* on success the fan-out starts: every job of buildJobs(plan) is pending
StepUpdateJobStatusGenerationRunning ==
    /\ \E fault \in Faults("update-job-status-generation-running") :
         /\ TryStep("update-job-status-generation-running", "fan-out",
                    updateJobStatus(project, NoId, event.userId, "none", "running"),
                    fault)
         /\ results' = IF pc' = "fan-out"
                       THEN [j \in JobKeys |-> IF j \in Jobs THEN "pending" ELSE "none"]
                       ELSE results
    /\ UNCHANGED <<event, invocations, summaryCache, summaryCalls, faultable, outcome, raised>>

\* step.run(`generate-${job.key}`): the step runtime executes the step either
\* in the invocation that ran the previous step (fresh = FALSE) or in a new
\* invocation of the function, where buildJobs creates a new summaryCache
Generate(j) ==
    /\ pc = "fan-out"
    /\ results[j] = "pending"
    /\ \E fault \in Faults(j), fresh \in BOOLEAN :
         LET cache == IF fresh THEN FALSE ELSE summaryCache
             reads == ~fault /\ j \in SummaryReaders
         IN /\ results' = [results EXCEPT ![j] = IF fault THEN "rejected" ELSE "fulfilled"]
            /\ injected' = IF fault THEN injected \cup {j} ELSE injected
            /\ summaryCache' = (cache \/ reads)
            /\ summaryCalls' = IF reads /\ ~cache THEN summaryCalls + 1 ELSE summaryCalls
    /\ UNCHANGED <<project, event, invocations, pc, activeStepLabel, stepLog, faultable,
                   thrownAt, outcome, raised>>

MergeResults ==
    /\ pc = "fan-out"
    /\ Joined
    /\ pc' = AfterMerge
    /\ UNCHANGED <<project, event, invocations, activeStepLabel, results, summaryCache,
                   summaryCalls, stepLog, faultable, injected, thrownAt, outcome,
                   raised>>

StepSaveGeneratedContent ==
    /\ \E fault \in Faults("save-generated-content") :
         TryStep("save-generated-content", AfterSaveContent,
                 saveGeneratedContent(project, NoId, event.userId, generatedContent),
                 fault)
    /\ UNCHANGED <<event, invocations, results, summaryCache, summaryCalls, faultable, outcome,
                   raised>>

StepSaveJobErrors ==
    /\ \E fault \in Faults("save-job-errors") :
         TryStep("save-job-errors", "update-job-status-generation-completed",
                 saveJobErrors(project, NoId, event.userId, jobErrors), fault)
    /\ UNCHANGED <<event, invocations, results, summaryCache, summaryCalls, faultable, outcome,
                   raised>>

StepUpdateJobStatusGenerationCompleted ==
    /\ \E fault \in Faults("update-job-status-generation-completed") :
         TryStep("update-job-status-generation-completed",
                 "update-project-status-completed",
                 updateJobStatus(project, NoId, event.userId, "none", "completed"),
                 fault)
    /\ UNCHANGED <<event, invocations, results, summaryCache, summaryCalls, faultable, outcome,
                   raised>>

StepUpdateProjectStatusCompleted ==
    /\ \E fault \in Faults("update-project-status-completed") :
         /\ TryStep("update-project-status-completed", "done",
                    updateProjectStatus(project, NoId, event.userId, "completed"),
                    fault)
         /\ outcome' = IF pc' = "done" THEN "returned" ELSE outcome
    /\ UNCHANGED <<event, invocations, results, summaryCache, summaryCalls, faultable, raised>>

\* the store call of each step of the catch block's inner try
CatchLabels == <<"save-job-error", "record-error", "update-project-status-failed">>

CatchCall(label) ==
    IF label = "save-job-error"
    THEN saveJobErrors(project, NoId, event.userId, {getErrorKey(activeStepLabel)})
    ELSE IF label = "record-error"
    THEN recordError(project, NoId, event.userId, "podcast-processor")
    ELSE updateProjectStatus(project, NoId, event.userId, "failed")

CatchNext(label) ==
    IF label = "save-job-error" THEN "record-error"
    ELSE IF label = "record-error" THEN "update-project-status-failed"
    ELSE "done"

\* a catch block that throws the error of its own failed write, when there is one
RethrowLast(error, statusError) ==
    IF statusError # "none" THEN statusError ELSE error

\* throw error: the error the outer catch received; statusError is only logged
Rethrow(error, statusError) == error

\* the catch block: its three steps run in order; when one throws, the inner
\* catch logs that error and the remaining steps are skipped; in both cases
\* the original error is re-thrown
CatchBlock ==
    /\ \E i \in 1..Len(CatchLabels) :
         LET label == CatchLabels[i]
             r == CatchCall(label)
         IN /\ pc = label
            /\ stepLog' = Append(stepLog, label)
            /\ IF r.outcome # "ok"
               THEN /\ pc' = "done" /\ outcome' = "rethrown" /\ project' = project
                    /\ raised' = Rethrow(thrownAt, label)
               ELSE /\ pc' = CatchNext(label)
                    /\ outcome' = IF CatchNext(label) = "done" THEN "rethrown" ELSE outcome
                    /\ raised' = IF CatchNext(label) = "done"
                                  THEN Rethrow(thrownAt, "none") ELSE raised
                    /\ project' = r.project
    /\ UNCHANGED <<event, invocations, activeStepLabel, results, summaryCache, summaryCalls,
                   faultable, injected, thrownAt>>

\* retries of createFunction: the number of re-invocations after a throw
retries == 3

\* the host scheduler re-invokes a run whose entry validation threw: the
\* error is a plain Error, which the scheduler retries while attempts remain
HostRetry ==
    /\ pc = "done" /\ outcome = "rejected"
    /\ invocations <= retries
    /\ invocations' = invocations + 1
    /\ pc' = "entry" /\ outcome' = "running"
    /\ UNCHANGED <<project, event, activeStepLabel, results, summaryCache,
                   summaryCalls, stepLog, faultable, injected, thrownAt, raised>>

podcastProcessor ==
    \/ Entry
    \/ StepUpdateProjectStatus
    \/ StepUpdateJobStatusTranscription
    \/ StepGenerateTranscription
    \/ StepSaveTranscription
    \/ StepUpdateJobStatusGenerationRunning
    \/ \E j \in JobKeys : Generate(j)
    \/ MergeResults
    \/ StepSaveGeneratedContent
    \/ StepSaveJobErrors
    \/ StepUpdateJobStatusGenerationCompleted
    \/ StepUpdateProjectStatusCompleted
    \/ CatchBlock

InitWorkflow(faultSets) ==
    /\ pc = "entry"
    /\ activeStepLabel = "init"
    /\ results = NoResults
    /\ summaryCache = FALSE
    /\ summaryCalls = 0
    /\ stepLog = <<>>
    /\ faultable \in faultSets
    /\ injected = {}
    /\ thrownAt = "none"
    /\ outcome = "running"
    /\ raised = "none"
    /\ invocations = 1

(***************************************************************************)
(* podcastRetryJob                                                         *)
(***************************************************************************)
\* a step of the try block; r is the store's answer, fault an error thrown
\* by the step itself
RetryStep(label, next, r, fault) ==
    /\ rpc = label
    /\ IF fault \/ r.outcome # "ok"
       THEN rpc' = "set-project-failed" /\ project' = project /\ routcome' = routcome
       ELSE /\ rpc' = next
            /\ project' = r.project
            /\ routcome' = IF next = "done" THEN "returned" ELSE routcome

\* the podcast/retry-job event arrives; event.data.userId is the owner's id
RetryStart ==
    /\ rpc = "idle"
    /\ rpc' = "set-project-processing"
    /\ routcome' = "running"
    /\ UNCHANGED project

RetrySetProjectProcessing ==
    RetryStep("set-project-processing", "set-transcription-processing",
              updateProjectStatus(project, NoId, Owner, "processing"), FALSE)

RetrySetTranscriptionProcessing ==
    RetryStep("set-transcription-processing", "wait-for-transcription",
              updateJobStatus(project, NoId, Owner, "processing", "none"), FALSE)

\* assertDevPlaceholderNotExpired throws once the placeholder date has passed
RetryWaitForTranscription ==
    \E expired \in BOOLEAN :
        RetryStep("wait-for-transcription", "set-transcription-completed",
                  Result("ok", project), expired)

RetrySetTranscriptionCompleted ==
    RetryStep("set-transcription-completed", "wait-for-content-generation",
              updateJobStatus(project, NoId, Owner, "completed", "running"), FALSE)

RetryWaitForContentGeneration ==
    \E expired \in BOOLEAN :
        RetryStep("wait-for-content-generation", "set-content-completed",
                  Result("ok", project), expired)

RetrySetContentCompleted ==
    RetryStep("set-content-completed", "set-project-completed",
              updateJobStatus(project, NoId, Owner, "none", "completed"), FALSE)

RetrySetProjectCompleted ==
    RetryStep("set-project-completed", "done",
              updateProjectStatus(project, NoId, Owner, "completed"), FALSE)

\* catch block: the status write's own failure is logged, the error re-thrown
RetrySetProjectFailed ==
    /\ rpc = "set-project-failed"
    /\ LET r == updateProjectStatus(project, NoId, Owner, "failed")
       IN project' = IF r.outcome = "ok" THEN r.project ELSE project
    /\ rpc' = "done"
    /\ routcome' = "rethrown"

podcastRetryJob ==
    \/ RetryStart
    \/ RetrySetProjectProcessing
    \/ RetrySetTranscriptionProcessing
    \/ RetryWaitForTranscription
    \/ RetrySetTranscriptionCompleted
    \/ RetryWaitForContentGeneration
    \/ RetrySetContentCompleted
    \/ RetrySetProjectCompleted
    \/ RetrySetProjectFailed

(***************************************************************************)
(* Direct calls of the public store mutations                              *)
(***************************************************************************)
NewName == <<Run(" ", 1), Run("b", 2), Run(" ", 1)>>

JobStatusArgs ==
    {<<"processing", "none">>, <<"completed", "running">>,
     <<"none", "running">>, <<"none", "completed">>}
ContentArgs == {{"summary"}, {"summary", "titles"}, {"hashtags"}}
JobErrorArgs == {{"summary"}, {"titles"}, {"general"}}

\* the call's effect is r; caller is the id the mutation compares with the owner
CallWith(op, caller, args, r) ==
    /\ calls < MaxDirectCalls
    /\ calls' = calls + 1
    /\ lastCall' = [op |-> op, caller |-> caller, args |-> args, outcome |-> r.outcome]
    /\ project' = r.project

Call(op, caller, r) == CallWith(op, caller, <<>>, r)

CallUpdateProjectStatus ==
    \E identity \in Ids, systemUserId \in Ids, status \in Statuses :
        Call("updateProjectStatus", CallerId(identity, systemUserId),
             updateProjectStatus(project, identity, systemUserId, status))

CallUpdateJobStatus ==
    \E identity \in Ids, systemUserId \in Ids, a \in JobStatusArgs :
        CallWith("updateJobStatus", CallerId(identity, systemUserId), a,
             updateJobStatus(project, identity, systemUserId, a[1], a[2]))

CallSaveTranscript ==
    \E identity \in Ids, systemUserId \in Ids :
        Call("saveTranscript", CallerId(identity, systemUserId),
             saveTranscript(project, identity, systemUserId))

CallSaveGeneratedContent ==
    \E identity \in Ids, systemUserId \in Ids, content \in ContentArgs :
        Call("saveGeneratedContent", CallerId(identity, systemUserId),
             saveGeneratedContent(project, identity, systemUserId, content))

CallSaveJobErrors ==
    \E identity \in Ids, systemUserId \in Ids, keys \in JobErrorArgs :
        CallWith("saveJobErrors", CallerId(identity, systemUserId), <<keys>>,
             saveJobErrors(project, identity, systemUserId, keys))

CallRecordError ==
    \E identity \in Ids, systemUserId \in Ids :
        Call("recordError", CallerId(identity, systemUserId),
             recordError(project, identity, systemUserId, "manual"))

\* the user-facing mutations are called with args.userId = the caller's identity
CallDeleteProject ==
    \E identity \in Ids :
        Call("deleteProject", identity, deleteProject(project, identity, identity))

CallUpdateProjectDisplayName ==
    \E identity \in Ids :
        Call("updateProjectDisplayName", identity,
             updateProjectDisplayName(project, identity, identity, NewName))

CallDeleteProjects ==
    \E userId \in {Owner, Stranger} :
        Call("deleteProjects", userId, deleteProjects(project, userId))

CallLegacyUpdateProjectDisplayName ==
    \E userId \in {Owner, Stranger} :
        Call("legacyUpdateProjectDisplayName", userId,
             legacyUpdateProjectDisplayName(project, userId))

DirectCall ==
    \/ CallUpdateProjectStatus
    \/ CallUpdateJobStatus
    \/ CallSaveTranscript
    \/ CallSaveGeneratedContent
    \/ CallSaveJobErrors
    \/ CallRecordError
    \/ CallDeleteProject
    \/ CallUpdateProjectDisplayName
    \/ CallDeleteProjects
    \/ CallLegacyUpdateProjectDisplayName

(***************************************************************************)
(* The per-user project counters. A mutation is a transaction: it reads a  *)
(* snapshot, and commits only when what it read is unchanged; otherwise    *)
(* the store runs it again on a new snapshot.                              *)
(***************************************************************************)
Creators == 1..MaxCreators
Deleter == MaxCreators + 1
Procs == Creators \cup {Deleter}

NoCounter == [exists |-> FALSE, totalCount |-> 0, activeCount |-> 0]
NewRow == [deleted |-> FALSE]
Store == [rows |-> rows, counter |-> counter, registry |-> registry]
IdleTxn == [op |-> "none", target |-> 0, phase |-> "idle", n |-> 0, snap |-> <<>>]

\* countUserProjects over the rows the transaction sees
countUserProjects(rs) ==
    [totalCount |-> Len(rs),
     activeCount |-> Cardinality({i \in 1..Len(rs) : ~rs[i].deleted})]

\* view: the transaction's view of the store (its snapshot and own writes)
ensureAndIncrementCounter(view, total, active) ==
    IF view.registry /\ view.counter.exists
    THEN [view EXCEPT !.counter.totalCount = @ + total,
                      !.counter.activeCount = @ + active]
    ELSE [view EXCEPT
            !.counter = [exists |-> TRUE,
                         totalCount |-> countUserProjects(view.rows).totalCount + total,
                         activeCount |-> countUserProjects(view.rows).activeCount + active],
            !.registry = TRUE]

\* createProject by the authenticated owner: insert, then count
createProject(view) ==
    ensureAndIncrementCounter([view EXCEPT !.rows = Append(@, NewRow)], 1, 1)

\* deleteProject of row i by the authenticated owner
deleteProjectTxn(view, i) ==
    IF view.rows[i].deleted THEN view
    ELSE [view EXCEPT
            !.rows[i].deleted = TRUE,
            !.counter.activeCount =
                IF view.counter.exists /\ @ > 0 THEN @ - 1 ELSE @]

\* what the mutation reads of store st
ReadSet(op, i, st) ==
    IF op = "create"
    THEN [registry |-> st.registry, counter |-> st.counter,
          rows |-> IF st.registry /\ st.counter.exists THEN <<>> ELSE st.rows]
    ELSE [registry |-> FALSE,
          counter |-> IF st.rows[i].deleted THEN NoCounter ELSE st.counter,
          rows |-> <<st.rows[i]>>]

\* the store's commit check: nothing the transaction read has changed
Validated(t) == ReadSet(t.op, t.target, t.snap) = ReadSet(t.op, t.target, Store)

\* the writes of the transaction, computed on its snapshot, applied to the store
Effect(t) ==
    IF t.op = "create"
    THEN LET after == createProject(t.snap)
         IN [rows |-> Append(rows, NewRow), counter |-> after.counter,
             registry |-> after.registry]
    ELSE LET after == deleteProjectTxn(t.snap, t.target)
         IN [rows |-> [rows EXCEPT ![t.target] = after.rows[t.target]],
             counter |-> IF t.snap.rows[t.target].deleted THEN counter ELSE after.counter,
             registry |-> registry]

\* a creator calls createProject once
BeginCreate(p) ==
    /\ p \in Creators
    /\ txn[p].phase = "idle"
    /\ txn' = [txn EXCEPT ![p] = [op |-> "create", target |-> 0, phase |-> "open",
                                  n |-> 1, snap |-> Store]]
    /\ UNCHANGED <<rows, counter, registry>>

\* the deleter calls deleteProject on an existing row, MaxDeletes times at most
BeginDelete(i) ==
    /\ txn[Deleter].phase \in {"idle", "done"}
    /\ txn[Deleter].n < MaxDeletes
    /\ i \in 1..Len(rows)
    /\ txn' = [txn EXCEPT ![Deleter] = [op |-> "delete", target |-> i,
                                        phase |-> "open", n |-> txn[Deleter].n + 1,
                                        snap |-> Store]]
    /\ UNCHANGED <<rows, counter, registry>>

Commit(p) ==
    /\ txn[p].phase = "open"
    /\ Validated(txn[p])
    /\ rows' = Effect(txn[p]).rows
    /\ counter' = Effect(txn[p]).counter
    /\ registry' = Effect(txn[p]).registry
    /\ txn' = [txn EXCEPT ![p].phase = "done", ![p].snap = <<>>]

\* conflict: the store re-runs the mutation on the current state
Retry(p) ==
    /\ txn[p].phase = "open"
    /\ ~Validated(txn[p])
    /\ txn' = [txn EXCEPT ![p].snap = Store]
    /\ UNCHANGED <<rows, counter, registry>>

(***************************************************************************)
(* createProjectAction and deleteProjectAction (server actions) of one     *)
(* user. Every await is a step of the call; a store mutation is one        *)
(* transaction; a call of the store, of the event service or of the blob   *)
(* store may fail.                                                         *)
(***************************************************************************)
Actors == 1..MaxActors
ActionVersions == {"app", "earlier"}
maxAttempts == 3

\* the limits of the user's plan: maxProjects is null for the ultra plan
LimitedPlans == {"free", "pro"}
NoLimit == [limited |-> FALSE, maxProjects |-> 0]
Limit(n) == [limited |-> TRUE, maxProjects |-> n]

IdleCall == [op |-> "none", version |-> "none", pc |-> "idle", projectId |-> 0,
             attempt |-> 0, sent |-> FALSE, deleted |-> FALSE,
             recorded |-> "no", result |-> "none"]

getUserProjectCount(view, includeDeleted) ==
    IF view.counter.exists
    THEN IF includeDeleted THEN view.counter.totalCount
         ELSE view.counter.activeCount
    ELSE 0

\* the project count test of checkUploadLimits: the upload is allowed
checkUploadLimits(plan, limits, view) ==
    IF limits.limited
    THEN LET includeDeleted == plan = "free"
             projectCount == getUserProjectCount(view, includeDeleted)
         IN ~(projectCount >= limits.maxProjects)
    ELSE TRUE

Returns(c, result) == [c EXCEPT !.pc = "done", !.result = result]

\* one turn of the send loop of createProjectAction; ok: inngest.send resolved
sendEvent(c, ok) ==
    IF ok THEN Returns([c EXCEPT !.sent = TRUE], "success")
    ELSE IF c.attempt < maxAttempts - 1 THEN [c EXCEPT !.attempt = @ + 1]
    ELSE IF c.version = "app" THEN [c EXCEPT !.pc = "cleanup"]
    ELSE Returns(c, "failure")

\* a blob loop that reports success when the last attempt has failed
deleteBlobLogOnly(c, ok) ==
    IF ok THEN Returns([c EXCEPT !.attempt = @ + 1, !.deleted = TRUE], "success")
    ELSE IF c.attempt < maxAttempts - 1 THEN [c EXCEPT !.attempt = @ + 1]
    ELSE Returns([c EXCEPT !.attempt = @ + 1], "success")

\* one turn of the blob loop of deleteProjectAction; ok: del resolved.
\* attempt counts the del calls made
deleteBlob(c, ok) ==
    IF ok THEN Returns([c EXCEPT !.attempt = @ + 1, !.deleted = TRUE], "success")
    ELSE IF c.attempt < maxAttempts - 1 THEN [c EXCEPT !.attempt = @ + 1]
    ELSE [c EXCEPT !.attempt = @ + 1, !.pc = "recordOrphanedBlob"]

\* recordOrphanedBlob by the authenticated owner: the rows that hold
\* orphanedBlob = true and the blob's URL
recordOrphanedBlob(orphaned, projectId) == orphaned \cup {projectId}

SetCall(a, c) == act' = [act EXCEPT !.call[a] = c]
SetStore(view) ==
    /\ rows' = view.rows
    /\ counter' = view.counter
    /\ registry' = view.registry

\* createProjectAction up to the answer of checkUploadLimits
CheckUploadLimits(a) ==
    /\ act.call[a].pc = "idle"
    /\ \E version \in ActionVersions :
          LET c == [IdleCall EXCEPT !.op = "create", !.version = version]
          IN IF checkUploadLimits(act.plan, act.limits, Store)
             THEN SetCall(a, [c EXCEPT !.pc = "createProject"])
             ELSE SetCall(a, Returns(c, "failure"))
    /\ UNCHANGED <<rows, counter, registry>>

\* fetchMutation(createProject): the mutation commits, or the call throws
\* and the outer catch returns the failure
CreateProject(a) ==
    /\ act.call[a].pc = "createProject"
    /\ \/ /\ SetStore(createProject(Store))
          /\ SetCall(a, [act.call[a] EXCEPT !.pc = "send",
                                            !.projectId = Len(rows) + 1])
       \/ /\ SetCall(a, Returns(act.call[a], "failure"))
          /\ UNCHANGED <<rows, counter, registry>>

SendEvent(a) ==
    /\ act.call[a].pc = "send"
    /\ \E ok \in BOOLEAN : SetCall(a, sendEvent(act.call[a], ok))
    /\ UNCHANGED <<rows, counter, registry>>

\* after the last failed send: del(fileUrl), then fetchMutation(deleteProject);
\* an error of either is logged and the failure is returned
CleanUp(a) ==
    /\ act.call[a].pc = "cleanup"
    /\ \/ SetStore(deleteProjectTxn(Store, act.call[a].projectId))
       \/ UNCHANGED <<rows, counter, registry>>
    /\ SetCall(a, Returns(act.call[a], "failure"))

\* deleteProjectAction up to the answer of fetchMutation(deleteProject)
DeleteProject(a) ==
    /\ act.call[a].pc = "idle"
    /\ \E i \in 1..Len(rows) :
          LET c == [IdleCall EXCEPT !.op = "delete", !.version = "app",
                                    !.projectId = i]
          IN \/ /\ SetStore(deleteProjectTxn(Store, i))
                /\ SetCall(a, [c EXCEPT !.pc = "del"])
             \/ /\ SetCall(a, Returns(c, "failure"))
                /\ UNCHANGED <<rows, counter, registry>>

DeleteBlob(a) ==
    /\ act.call[a].pc = "del"
    /\ \E ok \in BOOLEAN : SetCall(a, deleteBlob(act.call[a], ok))
    /\ UNCHANGED <<rows, counter, registry>>

\* fetchMutation(recordOrphanedBlob): an error of it is logged
RecordOrphanedBlob(a) ==
    /\ act.call[a].pc = "recordOrphanedBlob"
    /\ \E ok \in BOOLEAN :
          act' = [act EXCEPT
                    !.orphanedBlob =
                        IF ok THEN recordOrphanedBlob(@, act.call[a].projectId)
                        ELSE @,
                    !.call[a] = Returns([act.call[a] EXCEPT
                                            !.recorded = IF ok THEN "yes" ELSE "failed"],
                                        "partial")]
    /\ UNCHANGED <<rows, counter, registry>>

IdleAct == [plan |-> "free", limits |-> NoLimit, orphanedBlob |-> {},
            call |-> [a \in Actors |-> IdleCall]]

(***************************************************************************)
(* updateDisplayNameAction                                                 *)
(***************************************************************************)
MaxDisplayNameLength == 200

NameRuns == {Run(" ", 1), Run("a", 1), Run("a", MaxDisplayNameLength)}

RECURSIVE SeqsUpTo(_, _)
SeqsUpTo(S, k) ==
    IF k = 0 THEN {<<>>}
    ELSE SeqsUpTo(S, k - 1)
         \cup {Append(q, x) : q \in {r \in SeqsUpTo(S, k - 1) : Len(r) = k - 1}, x \in S}

Names == SeqsUpTo(NameRuns, MaxNameRuns)

ActionResult(ok, p) == [success |-> ok, project |-> p]

\* the action without its checks of the trimmed name
updateDisplayNameActionUnchecked(p, userId, displayName) ==
    IF userId = NoId THEN ActionResult(FALSE, p)
    ELSE LET r == updateProjectDisplayName(p, userId, userId, trim(displayName))
         IN ActionResult(r.outcome = "ok", r.project)

\* src/app/actions/projects.ts: trims, then validates the trimmed name
updateDisplayNameAction(p, userId, displayName) ==
    IF userId = NoId THEN ActionResult(FALSE, p)
    ELSE IF trim(displayName) = <<>> THEN ActionResult(FALSE, p)
    ELSE IF StrLen(trim(displayName)) > MaxDisplayNameLength THEN ActionResult(FALSE, p)
    ELSE LET r == updateProjectDisplayName(p, userId, userId, trim(displayName))
         IN ActionResult(r.outcome = "ok", r.project)

\* actions/projects.ts: validates the length of the name as given
updateDisplayNameActionV1(p, userId, displayName) ==
    IF userId = NoId THEN ActionResult(FALSE, p)
    ELSE IF displayName = <<>> \/ StrLen(trim(displayName)) = 0 THEN ActionResult(FALSE, p)
    ELSE IF StrLen(displayName) > MaxDisplayNameLength THEN ActionResult(FALSE, p)
    ELSE LET r == updateProjectDisplayName(p, userId, userId, trim(displayName))
         IN ActionResult(r.outcome = "ok", r.project)

Rename(version, userId, displayName, r) ==
    /\ project' = r.project
    /\ lastRename' = [version |-> version, userId |-> userId, input |-> displayName,
                      success |-> r.success]

RenameAction ==
    \E userId \in Ids, displayName \in Names :
        Rename("app", userId, displayName,
               updateDisplayNameAction(project, userId, displayName))

RenameActionV1 ==
    \E userId \in Ids, displayName \in Names :
        Rename("v1", userId, displayName,
               updateDisplayNameActionV1(project, userId, displayName))

(***************************************************************************)
(* mapWordsToWordSegments (AssemblyAI client)                              *)
(***************************************************************************)
WORD_SEGMENT_GAP_MS == 1500
WORD_SEGMENT_MAX_WORDS == 24

\* the last character of a non-empty string, and the string without it
LastChar(s) == s[Len(s)].ch
ButLast(s) ==
    IF s[Len(s)].n = 1 THEN SubSeq(s, 1, Len(s) - 1)
    ELSE [s EXCEPT ![Len(s)].n = @ - 1]

SentenceEnders == {".", "!", "?"}
Closers == {"\"", "'", ")", "]"}

\* /[.!?]["')\]]?$/.test(s)
EndsSentence(s) ==
    /\ s # <<>>
    /\ \/ LastChar(s) \in SentenceEnders
       \/ /\ LastChar(s) \in Closers
          /\ ButLast(s) # <<>>
          /\ LastChar(ButLast(s)) \in SentenceEnders

\* an AssemblyAiWord: defined is the set of its fields that hold a value of
\* the field's type
WordFields == {"text", "start", "end"}
AssemblyAiWord(text, start, end, defined) ==
    [text |-> text, start |-> start, end |-> end, defined |-> defined]

IsValidWord(word) == WordFields \subseteq word.defined

RECURSIVE validWords(_)
validWords(ws) ==
    IF ws = <<>> THEN <<>>
    ELSE IF IsValidWord(Head(ws))
         THEN <<[word |-> Head(ws).text, start |-> Head(ws).start,
                 end |-> Head(ws).end]>> \o validWords(Tail(ws))
         ELSE validWords(Tail(ws))

\* pushSegment: acc is [segments, currentWords]
pushSegment(acc) ==
    IF acc.currentWords = <<>> THEN acc
    ELSE [segments |->
            Append(acc.segments,
                   [id |-> Len(acc.segments),
                    start |-> acc.currentWords[1].start,
                    end |-> acc.currentWords[Len(acc.currentWords)].end,
                    words |-> acc.currentWords]),
          currentWords |-> <<>>]

\* a segmenter that ignores the pause between the words
hasLargeGapNever(currentWords, currentWord) == FALSE

hasLargeGap(currentWords, currentWord) ==
    /\ currentWords # <<>>
    /\ currentWord.start - currentWords[Len(currentWords)].end > WORD_SEGMENT_GAP_MS

\* a sentence test that does not allow a closing quote or bracket
hasSentenceBoundaryBare(currentWords) ==
    /\ currentWords # <<>>
    /\ trim(currentWords[Len(currentWords)].word) # <<>>
    /\ LastChar(trim(currentWords[Len(currentWords)].word)) \in SentenceEnders

hasSentenceBoundary(currentWords) ==
    /\ currentWords # <<>>
    /\ EndsSentence(trim(currentWords[Len(currentWords)].word))

\* a limit test that lets one more word in
hitWordLimitLate(currentWords) == Len(currentWords) > WORD_SEGMENT_MAX_WORDS

hitWordLimit(currentWords) == Len(currentWords) >= WORD_SEGMENT_MAX_WORDS

\* a loop that closes the segment and goes on to the next word, so that the
\* word at which a segment was closed is lost
RECURSIVE segmentLoopDrops(_, _, _)
segmentLoopDrops(vs, i, acc) ==
    IF i > Len(vs) THEN acc
    ELSE IF \/ hasLargeGap(acc.currentWords, vs[i])
            \/ hasSentenceBoundary(acc.currentWords)
            \/ hitWordLimit(acc.currentWords)
    THEN segmentLoopDrops(vs, i + 1, pushSegment(acc))
    ELSE segmentLoopDrops(vs, i + 1, [acc EXCEPT !.currentWords = Append(@, vs[i])])

\* the body of the for loop, for the word vs[i]
RECURSIVE segmentLoop(_, _, _)
segmentLoop(vs, i, acc) ==
    IF i > Len(vs) THEN acc
    ELSE LET pushed ==
                 IF \/ hasLargeGap(acc.currentWords, vs[i])
                    \/ hasSentenceBoundary(acc.currentWords)
                    \/ hitWordLimit(acc.currentWords)
                 THEN pushSegment(acc) ELSE acc
         IN segmentLoop(vs, i + 1,
                        [pushed EXCEPT !.currentWords = Append(@, vs[i])])

mapWordsToWordSegments(ws) ==
    pushSegment(segmentLoop(validWords(ws), 1,
                            [segments |-> <<>>, currentWords |-> <<>>])).segments

\* the inputs: words of 100 ms; a plain word follows the word before it after
\* exactly the threshold, the other kinds differ from it in one respect
PlainText == <<Run("a", 1)>>
WordKinds == {"plain", "end", "endClosed", "late", "untyped"}

KindText(kind) ==
    IF kind = "end" THEN <<Run("a", 1), Run(".", 1)>>
    ELSE IF kind = "endClosed" THEN <<Run("a", 1), Run("?", 1), Run(")", 1)>>
    ELSE PlainText

KindGap(kind) ==
    IF kind = "late" THEN WORD_SEGMENT_GAP_MS + 1 ELSE WORD_SEGMENT_GAP_MS

KindDefined(kind) == IF kind = "untyped" THEN {"start", "end"} ELSE WordFields

NextWord(ws, kind) ==
    LET clock == IF ws = <<>> THEN 0 ELSE ws[Len(ws)].end
    IN AssemblyAiWord(KindText(kind), clock + KindGap(kind),
                      clock + KindGap(kind) + 100, KindDefined(kind))

\* ws followed by n plain words
RECURSIVE PlainWords(_, _)
PlainWords(ws, n) ==
    IF n = 0 THEN ws ELSE PlainWords(Append(ws, NextWord(ws, "plain")), n - 1)

PlainRun == WORD_SEGMENT_MAX_WORDS - 1

\* the transcript grows, by one word of some kind or (while it is short) by
\* a run of plain words, and is segmented again
SegmentWords ==
    /\ appended < MaxAppends
    /\ appended' = appended + 1
    /\ \/ \E kind \in WordKinds : words' = Append(words, NextWord(words, kind))
       \/ Len(words) < PlainRun /\ words' = PlainWords(words, PlainRun)
    /\ ~normalized.done
    /\ segments' = mapWordsToWordSegments(words')
    /\ UNCHANGED <<poll, lastSummary, lastTimestamp, normalized>>

\* an AssemblyAiSentenceSegment: defined is the set of its text, start and
\* end fields that hold a value of the field's type; ws is its words field
NotAnArray == [isArray |-> FALSE, items |-> <<>>]
ArrayOf(items) == [isArray |-> TRUE, items |-> items]
AssemblyAiSentenceSegment(text, start, end, defined, ws) ==
    [text |-> text, start |-> start, end |-> end, defined |-> defined,
     words |-> ws]

IsValidSegment(segment) == WordFields \subseteq segment.defined

\* the value of an optional field
undefined == [defined |-> FALSE, value |-> <<>>]
Defined(value) == [defined |-> TRUE, value |-> value]

\* the body of the map callback: a transcript segment with the given id
sentenceSegment(segment, index) ==
    [id |-> index, start |-> segment.start, end |-> segment.end,
     text |-> segment.text,
     words |-> IF segment.words.isArray
               THEN Defined(validWords(segment.words.items))
               ELSE undefined]

\* a mapping that numbers the sentences before it drops the invalid ones
mapSentenceSegmentsNumberedFirst(given) ==
    IF ~given.isArray \/ given.items = <<>> THEN undefined
    ELSE LET numbered == [i \in 1..Len(given.items) |->
                             [at |-> i - 1, segment |-> given.items[i]]]
             kept == SelectSeq(numbered, LAMBDA n : IsValidSegment(n.segment))
             mapped == [i \in 1..Len(kept) |->
                           sentenceSegment(kept[i].segment, kept[i].at)]
         IN IF Len(mapped) > 0 THEN Defined(mapped) ELSE undefined

mapSentenceSegments(given) ==
    IF ~given.isArray \/ given.items = <<>> THEN undefined
    ELSE LET kept == SelectSeq(given.items, IsValidSegment)
             mapped == [i \in 1..Len(kept) |-> sentenceSegment(kept[i], i - 1)]
         IN IF Len(mapped) > 0 THEN Defined(mapped) ELSE undefined

\* segments of the value transcribeWithAssemblyAI returns
transcriptSegments(given, ws) ==
    LET sentenceSegments == mapSentenceSegments(given)
    IN IF sentenceSegments.defined THEN sentenceSegments.value
       ELSE mapWordsToWordSegments(ws)

\* the inputs: sentences of one second each, with or without a words array,
\* or lacking their text
SentenceKinds == {"plain", "withWords", "untyped"}

SentenceOf(kind, i) ==
    AssemblyAiSentenceSegment(
        <<Run("s", i)>>, 1000 * i, 1000 * i + 900,
        IF kind = "untyped" THEN {"start", "end"} ELSE WordFields,
        IF kind = "withWords"
        THEN ArrayOf(<<AssemblyAiWord(PlainText, 1000 * i, 1000 * i + 100, WordFields),
                       AssemblyAiWord(PlainText, 1000 * i + 200, 1000 * i + 300,
                                      {"start", "end"})>>)
        ELSE NotAnArray)

ProviderSegments ==
    {NotAnArray} \cup
    {ArrayOf([i \in 1..Len(kinds) |-> SentenceOf(kinds[i], i)]) :
        kinds \in SeqsUpTo(SentenceKinds, MaxSentences)}

IdleNormalized == [done |-> FALSE, given |-> NotAnArray, segments |-> <<>>]

\* the completed transcript is normalized: result.segments is some provider
\* answer, result.words the words so far
NormalizeSegments ==
    /\ ~normalized.done
    /\ \E given \in ProviderSegments :
          normalized' = [done |-> TRUE, given |-> given,
                         segments |-> transcriptSegments(given, words)]
    /\ UNCHANGED <<words, appended, segments, poll, lastSummary, lastTimestamp>>

(***************************************************************************)
(* transcribeWithAssemblyAI: start, then poll with rate-limit retries      *)
(***************************************************************************)
POLL_INTERVAL_MS == 3000
MAX_POLLS == 120
RATE_LIMIT_MAX_RETRIES == 4
RATE_LIMIT_BASE_DELAY_MS == 1000
RATE_LIMIT_BACKOFF_FACTOR == 2
backoffFactor == 2
maxPollIntervalMs == POLL_INTERVAL_MS * 8

\* Math.min(base * Math.pow(factor, n), cap), for factor >= 1
RECURSIVE BackoffDelay(_, _, _, _)
BackoffDelay(base, factor, n, cap) ==
    IF base >= cap THEN cap
    ELSE IF n = 0 THEN base
    ELSE BackoffDelay(base * factor, factor, n - 1, cap)

NoError == [kind |-> "none", names |-> {}]
\* an Error: kind is the message's fixed text, names what the message embeds
Error(kind, names) == [kind |-> kind, names |-> names]

\* the audioUrl argument: "", whitespace only, text that new URL() rejects,
\* an absolute URL
AudioUrls == {"empty", "blank", "relative", "absolute"}
\* the two transcription clients of the repository
Versions == {"lib", "part_024"}

IdlePoll ==
    [pc |-> "call", version |-> "none", audioUrl |-> "none", keyRead |-> FALSE,
     requested |-> FALSE, attempt |-> 0, rateLimitAttempt |-> 0, fetches |-> 0,
     evaluations |-> 0, answer |-> "none", delayMs |-> 0, outcome |-> "pending",
     error |-> NoError]

Reject(p, e) == [p EXCEPT !.pc = "done", !.outcome = "rejected", !.error = e]

\* new URL(audioUrl) does not throw
ParsesAsUrl(audioUrl) == audioUrl = "absolute"

\* entry of transcribeWithAssemblyAI (part_024): trim test, then new URL()
transcribeWithAssemblyAI(p, audioUrl) ==
    LET q == [p EXCEPT !.version = "part_024", !.audioUrl = audioUrl]
    IN IF audioUrl \in {"empty", "blank"}
       THEN Reject(q, Error("audioUrl is required for transcription", {}))
       ELSE IF ~ParsesAsUrl(audioUrl)
       THEN Reject(q, Error("invalid audioUrl format", {}))
       ELSE [q EXCEPT !.pc = "key"]

\* entry of transcribeWithAssemblyAI (lib/assemblyai.ts): if (!audioUrl) throw
transcribeWithAssemblyAI_lib(p, audioUrl) ==
    LET q == [p EXCEPT !.version = "lib", !.audioUrl = audioUrl]
    IN IF audioUrl = "empty"
       THEN Reject(q, Error("audioUrl is required for transcription", {}))
       ELSE [q EXCEPT !.pc = "key"]

requireApiKey(p, apiKey) ==
    LET q == [p EXCEPT !.keyRead = TRUE]
    IN IF ~apiKey THEN Reject(q, Error("ASSEMBLYAI_API_KEY is not set", {}))
       ELSE [q EXCEPT !.pc = "start"]

\* answers of the start endpoint and of the poll endpoint; "timeout" is the
\* abort of fetchWithTimeout, "network_error" a fetch that rejects
StartAnswers == {"ok", "not_ok", "no_id", "timeout", "network_error"}
PollAnswers ==
    {"429", "not_ok", "completed", "error", "processing", "timeout", "network_error"}
\* the fetch of lib/assemblyai.ts carries no abort signal
AnswersOf(version, answers) ==
    IF version = "lib" THEN answers \ {"timeout"} ELSE answers

\* startTranscription, the same in both clients but for the request timeout
startTranscription(p, answer) ==
    LET q == [p EXCEPT !.requested = TRUE]
    IN IF answer = "timeout"
       THEN Reject(q, Error("AssemblyAI start request timed out", {}))
       ELSE IF answer = "network_error" THEN Reject(q, Error("fetch failed", {}))
       ELSE IF answer = "not_ok"
       THEN Reject(q, Error("AssemblyAI start failed", {"status", "body"}))
       ELSE IF answer = "no_id"
       THEN Reject(q, Error("AssemblyAI did not return a transcript id", {}))
       ELSE [q EXCEPT !.pc = "poll"]

\* one pass of the loop of fetchWithRateLimitRetries on answer 429
rateLimited(p) ==
    LET n == p.rateLimitAttempt + 1
        q == [p EXCEPT !.rateLimitAttempt = n,
                       !.delayMs = BackoffDelay(RATE_LIMIT_BASE_DELAY_MS,
                                                RATE_LIMIT_BACKOFF_FACTOR, n - 1,
                                                maxPollIntervalMs)]
    IN IF n > RATE_LIMIT_MAX_RETRIES
       THEN Reject(q, Error("AssemblyAI poll failed (429) after retries",
                            {"status", "rateLimitMaxRetries", "body"}))
       ELSE q

\* the loop of pollTranscription with the bound tested one attempt late
polledOneMore(p, answer) ==
    LET r == [p EXCEPT !.evaluations = @ + 1, !.answer = answer]
    IN IF answer = "not_ok"
       THEN Reject(r, Error("AssemblyAI poll failed", {"status", "body"}))
       ELSE IF answer = "completed" THEN [r EXCEPT !.pc = "done", !.outcome = "resolved"]
       ELSE IF answer = "error"
       THEN Reject(r, Error("AssemblyAI transcription failed", {"error"}))
       ELSE LET q == [r EXCEPT !.delayMs = BackoffDelay(POLL_INTERVAL_MS, backoffFactor,
                                                        p.attempt, maxPollIntervalMs),
                               !.attempt = @ + 1,
                               !.rateLimitAttempt = 0,
                               !.fetches = 0]
            IN IF q.attempt <= MAX_POLLS THEN q
               ELSE Reject(q, Error("AssemblyAI transcription timed out", {}))

\* pollTranscription after fetchWithRateLimitRetries has returned a response:
\* one evaluation of the response, then the delay and the loop test
polled(p, answer) ==
    LET r == [p EXCEPT !.evaluations = @ + 1, !.answer = answer]
    IN IF answer = "not_ok"
       THEN Reject(r, Error("AssemblyAI poll failed", {"status", "body"}))
       ELSE IF answer = "completed" THEN [r EXCEPT !.pc = "done", !.outcome = "resolved"]
       ELSE IF answer = "error"
       THEN Reject(r, Error("AssemblyAI transcription failed", {"error"}))
       ELSE LET q == [r EXCEPT !.delayMs = BackoffDelay(POLL_INTERVAL_MS, backoffFactor,
                                                        p.attempt, maxPollIntervalMs),
                               !.attempt = @ + 1,
                               !.rateLimitAttempt = 0,
                               !.fetches = 0]
            IN IF q.attempt < MAX_POLLS THEN q
               ELSE Reject(q, Error("AssemblyAI transcription timed out", {}))

\* one fetch of the poll endpoint and what the code does with its answer
pollFetch(p, answer) ==
    LET q == [p EXCEPT !.fetches = @ + 1]
    IN IF answer = "timeout"
       THEN Reject(q, Error("AssemblyAI poll request timed out for transcript",
                            {"transcriptId"}))
       ELSE IF answer = "network_error" THEN Reject(q, Error("fetch failed", {}))
       ELSE IF answer = "429" THEN rateLimited(q)
       ELSE polled(q, answer)

\* one pass of the loop of pollTranscription (lib/assemblyai.ts): a plain
\* fetch, 429 is a response that is not ok, the delay is POLL_INTERVAL_MS
pollTranscription_lib(p, answer) ==
    LET r == [p EXCEPT !.evaluations = @ + 1, !.answer = answer]
    IN IF answer = "network_error" THEN Reject(p, Error("fetch failed", {}))
       ELSE IF answer \in {"not_ok", "429"}
       THEN Reject(r, Error("AssemblyAI poll failed", {"status", "body"}))
       ELSE IF answer = "completed" THEN [r EXCEPT !.pc = "done", !.outcome = "resolved"]
       ELSE IF answer = "error"
       THEN Reject(r, Error("AssemblyAI transcription failed", {"error"}))
       ELSE LET q == [r EXCEPT !.delayMs = POLL_INTERVAL_MS, !.attempt = @ + 1]
            IN IF q.attempt < MAX_POLLS THEN q
               ELSE Reject(q, Error("AssemblyAI transcription timed out", {}))

TranscribeWithAssemblyAI ==
    /\ poll.pc = "call"
    /\ \E audioUrl \in AudioUrls :
          \/ poll' = transcribeWithAssemblyAI(poll, audioUrl)
          \/ poll' = transcribeWithAssemblyAI_lib(poll, audioUrl)
    /\ UNCHANGED <<words, appended, segments, lastSummary, lastTimestamp, normalized>>

RequireApiKey ==
    /\ poll.pc = "key"
    /\ \E apiKey \in BOOLEAN : poll' = requireApiKey(poll, apiKey)
    /\ UNCHANGED <<words, appended, segments, lastSummary, lastTimestamp, normalized>>

StartTranscription ==
    /\ poll.pc = "start"
    /\ \E answer \in AnswersOf(poll.version, StartAnswers) :
          poll' = startTranscription(poll, answer)
    /\ UNCHANGED <<words, appended, segments, lastSummary, lastTimestamp, normalized>>

PollTranscription ==
    /\ poll.pc = "poll"
    /\ \E answer \in AnswersOf(poll.version, PollAnswers) :
          poll' = IF poll.version = "lib" THEN pollTranscription_lib(poll, answer)
                  ELSE pollFetch(poll, answer)
    /\ UNCHANGED <<words, appended, segments, lastSummary, lastTimestamp, normalized>>

(***************************************************************************)
(* generateSummary                                                         *)
(***************************************************************************)
FallbackTldrLimit == 240
FallbackTldrSlice == 237

\* s.slice(0, n)
RECURSIVE Slice(_, _)
Slice(s, n) ==
    IF s = <<>> \/ n <= 0 THEN <<>>
    ELSE IF Head(s).n <= n THEN <<Head(s)>> \o Slice(Tail(s), n - Head(s).n)
    ELSE <<Run(Head(s).ch, n)>>

buildFallbackTldr(fullText) ==
    IF StrLen(fullText) > FallbackTldrLimit
    THEN trimEnd(Slice(fullText, FallbackTldrSlice)) \o <<Run(".", 3)>>
    ELSE fullText

\* the outcomes of the model invocation: the API key is not set, the request
\* is aborted, the fetch rejects, the response is not ok, the response has no
\* content, the content is not JSON, or the content is JSON with a tldr, a
\* blank tldr or none
ModelAnswers ==
    {"no_key", "timeout", "network_error", "not_ok", "empty_content", "unparsable",
     "tldr", "blank_tldr", "no_tldr"}
ModelBullets == <<"bullet">>
ModelInsights == <<"insight">>
ModelTldr == <<Run(" ", 1), Run("t", 1)>>
NoTldr == <<>>

\* extractSummaryLists on the content of the answer; content that is not JSON
\* is read line by line, without section headers every line is a bullet
extractSummaryLists(answer) ==
    [bullets |-> IF answer = "unparsable" THEN <<"line">> ELSE ModelBullets,
     insights |-> IF answer = "unparsable" THEN <<>> ELSE ModelInsights,
     tldr |-> IF answer = "tldr" THEN ModelTldr
              ELSE IF answer = "blank_tldr" THEN <<Run(" ", 1)>>
              ELSE NoTldr]

\* the value null
Null == [null |-> TRUE]

\* a call that returned value, a call that threw error
Returned(value) == [threw |-> FALSE, error |-> "none", value |-> value]
Thrown(error) == [threw |-> TRUE, error |-> error, value |-> "none"]

\* requestSummaryFromModel going on to read a response that is not ok
requestSummaryFromModelLenient(answer) ==
    IF answer = "no_key" THEN Returned(Null)
    ELSE IF answer = "timeout" THEN Thrown("OpenAI request timed out")
    ELSE IF answer = "network_error" THEN Thrown("fetch failed")
    ELSE IF answer \in {"not_ok", "empty_content"}
    THEN Thrown("Summary model returned empty content")
    ELSE Returned(extractSummaryLists(answer))

requestSummaryFromModel(answer) ==
    IF answer = "no_key" THEN Returned(Null)
    ELSE IF answer = "timeout" THEN Thrown("OpenAI request timed out")
    ELSE IF answer = "network_error" THEN Thrown("fetch failed")
    ELSE IF answer = "not_ok" THEN Thrown("Summary model request failed")
    ELSE IF answer = "empty_content" THEN Thrown("Summary model returned empty content")
    ELSE Returned(extractSummaryLists(answer))

\* the lists generateSummary takes from the call's result:
\* extracted?.bullets ?? [], extracted?.insights ?? [], extracted?.tldr?.trim()
SummaryExtraction(answer) ==
    LET extracted == requestSummaryFromModel(answer)
        absent == extracted.threw \/ extracted.value = Null
    IN [bullets |-> IF absent THEN <<>> ELSE extracted.value.bullets,
        insights |-> IF absent THEN <<>> ELSE extracted.value.insights,
        tldr |-> IF absent THEN NoTldr ELSE trim(extracted.value.tldr)]

\* requested: requestSummaryFromModel was called
Summary(full, bullets, insights, tldr, requested) ==
    [full |-> full, bullets |-> bullets, insights |-> insights, tldr |-> tldr,
     requested |-> requested]

\* generateSummary without the early return for blank text
generateSummaryAlwaysAsks(fullText, answer) ==
    Returned(Summary(fullText, SummaryExtraction(answer).bullets,
                     SummaryExtraction(answer).insights,
                     IF SummaryExtraction(answer).tldr # NoTldr
                     THEN SummaryExtraction(answer).tldr
                     ELSE buildFallbackTldr(fullText),
                     TRUE))

\* generateSummary without the try/catch around the model request
generateSummaryNoCatch(fullText, answer) ==
    IF trim(fullText) = <<>>
    THEN Returned(Summary(fullText, <<>>, <<>>, buildFallbackTldr(fullText), FALSE))
    ELSE IF requestSummaryFromModel(answer).threw
    THEN Thrown(requestSummaryFromModel(answer).error)
    ELSE Returned(Summary(fullText, SummaryExtraction(answer).bullets,
                          SummaryExtraction(answer).insights,
                          IF SummaryExtraction(answer).tldr # NoTldr
                          THEN SummaryExtraction(answer).tldr
                          ELSE buildFallbackTldr(fullText),
                          TRUE))

generateSummary(fullText, answer) ==
    IF trim(fullText) = <<>>
    THEN Returned(Summary(fullText, <<>>, <<>>, buildFallbackTldr(fullText), FALSE))
    ELSE IF requestSummaryFromModel(answer).threw
    THEN Returned(Summary(fullText, <<>>, <<>>, buildFallbackTldr(fullText), TRUE))
    ELSE Returned(Summary(fullText, SummaryExtraction(answer).bullets,
                          SummaryExtraction(answer).insights,
                          IF SummaryExtraction(answer).tldr # NoTldr
                          THEN SummaryExtraction(answer).tldr
                          ELSE buildFallbackTldr(fullText),
                          TRUE))

\* Promise.allSettled on the summary job, whose run awaits generateSummary
settled(completion) == IF completion.threw THEN "rejected" ELSE "fulfilled"

TextRuns ==
    {Run(" ", 1), Run(" ", FallbackTldrLimit), Run("a", 1),
     Run("a", FallbackTldrSlice - 1), Run("a", FallbackTldrLimit)}
Texts == SeqsUpTo(TextRuns, MaxTextRuns)

IdleSummary == [text |-> <<>>, answer |-> "none", modelError |-> "none",
                threw |-> FALSE, job |-> "none",
                summary |-> Summary(<<>>, <<>>, <<>>, <<>>, FALSE)]

\* one summary job: the call of generateSummary and how the job settles;
\* modelError is what requestSummaryFromModel threw, if it was called
GenerateSummary ==
    /\ lastSummary = IdleSummary
    /\ \E text \in Texts, answer \in ModelAnswers :
         LET completion == generateSummary(text, answer)
         IN lastSummary' =
               [text |-> text, answer |-> answer,
                modelError |-> IF ~completion.threw /\ ~completion.value.requested
                               THEN "none" ELSE requestSummaryFromModel(answer).error,
                threw |-> completion.threw,
                job |-> settled(completion),
                summary |-> completion.value]
    /\ UNCHANGED <<words, appended, segments, poll, lastTimestamp, normalized>>

(***************************************************************************)
(* formatYouTubeTimestamp; a string is here a sequence of characters       *)
(***************************************************************************)
DigitChars == <<"0", "1", "2", "3", "4", "5", "6", "7", "8", "9">>

\* value.toString() for an integer value >= 0
RECURSIVE toString(_)
toString(value) ==
    IF value < 10 THEN <<DigitChars[value + 1]>>
    ELSE Append(toString(value \div 10), DigitChars[(value % 10) + 1])

\* str.padStart(n, ch)
RECURSIVE padStart(_, _, _)
padStart(str, n, ch) == IF Len(str) >= n THEN str ELSE padStart(<<ch>> \o str, n, ch)

\* a pad that leaves the digits as they are
padNone(value) == toString(value)

pad(value) == padStart(toString(value), 2, "0")

formatYouTubeTimestamp(totalSeconds) ==
    LET hours == totalSeconds \div 3600
        minutes == (totalSeconds % 3600) \div 60
        seconds == totalSeconds % 60
    IN IF hours > 0
       THEN toString(hours) \o <<":">> \o pad(minutes) \o <<":">> \o pad(seconds)
       ELSE toString(minutes) \o <<":">> \o pad(seconds)

\* the timestamp of one segment: segment.start is in milliseconds
segmentTimestamp(start) == formatYouTubeTimestamp(start \div 1000)

IdleTimestamp == [start |-> 0, timestamp |-> <<>>]

\* one segment of the transcript is labelled
GenerateYouTubeTimestamp ==
    /\ lastTimestamp = IdleTimestamp
    /\ \E sec \in 0..MaxSeconds, ms \in {0, 999} :
         lastTimestamp' = [start |-> sec * 1000 + ms,
                           timestamp |-> segmentTimestamp(sec * 1000 + ms)]
    /\ UNCHANGED <<words, appended, segments, poll, lastSummary, normalized>>

IdleRetry == rpc = "idle" /\ routcome = "idle"
IdleCalls == calls = 0 /\ lastCall = [op |-> "none", caller |-> NoId, args |-> <<>>,
                                       outcome |-> "none"]
IdleCounter == rows = <<>> /\ counter = NoCounter /\ registry = FALSE
               /\ txn = [p \in Procs |-> IdleTxn] /\ act = IdleAct
IdleRename == lastRename = [version |-> "none", userId |-> NoId, input |-> <<>>,
                            success |-> FALSE]
IdleLib == words = <<>> /\ appended = 0 /\ segments = <<>> /\ poll = IdlePoll
           /\ lastSummary = IdleSummary /\ lastTimestamp = IdleTimestamp
           /\ normalized = IdleNormalized

Init ==
    /\ project = NewProject
    /\ event \in Events
    /\ InitWorkflow({StepLabels \cup JobKeys})
    /\ IdleRetry /\ IdleCalls /\ IdleCounter /\ IdleRename /\ IdleLib

Next ==
    /\ podcastProcessor \/ HostRetry
    /\ UNCHANGED <<retryVars, callVars, ctrVars, lastRename, libVars>>

Spec == Init /\ [][Next]_vars

\* the store specification: both workflows and direct calls on one project
StoreEvents == [projectId : {"p1"}, fileUrl : {"blob"}, userId : {Owner},
                plan : {"free"}]

InitStore ==
    /\ project = NewProject
    /\ event \in StoreEvents
    /\ InitWorkflow({{"generate-transcription", "summary"}})
    /\ IdleRetry /\ IdleCalls /\ IdleCounter /\ IdleRename /\ IdleLib

NextStore ==
    \/ podcastProcessor /\ UNCHANGED <<retryVars, callVars, ctrVars, lastRename, libVars>>
    \/ podcastRetryJob /\ UNCHANGED <<wfVars, callVars, ctrVars, lastRename, libVars>>
    \/ DirectCall /\ UNCHANGED <<wfVars, retryVars, ctrVars, lastRename, libVars>>

SpecStore == InitStore /\ [][NextStore]_vars

\* the counter specification: a new user, MaxCreators concurrent creations
InitCounter ==
    /\ project = NewProject
    /\ event \in StoreEvents
    /\ InitWorkflow({{}})
    /\ IdleRetry /\ IdleCalls /\ IdleCounter /\ IdleRename /\ IdleLib

NextCounter ==
    /\ \/ \E p \in Creators : BeginCreate(p)
       \/ \E i \in 1..(MaxCreators) : BeginDelete(i)
       \/ \E p \in Procs : Commit(p)
       \/ \E p \in Procs : Retry(p)
    /\ UNCHANGED <<project, wfVars, retryVars, callVars, lastRename, libVars, act>>

SpecCounter == InitCounter /\ [][NextCounter]_vars

\* the server-action specification: MaxActors calls of createProjectAction or
\* deleteProjectAction by one user, whose plan allows 1..MaxLimit projects
\* or any number
InitActions ==
    /\ project = NewProject
    /\ event \in StoreEvents
    /\ InitWorkflow({{}})
    /\ IdleRetry /\ IdleCalls /\ IdleRename /\ IdleLib
    /\ rows = <<>> /\ counter = NoCounter /\ registry = FALSE
    /\ txn = [p \in Procs |-> IdleTxn]
    /\ act \in {[IdleAct EXCEPT !.plan = "ultra"]} \cup
               {[IdleAct EXCEPT !.plan = plan, !.limits = Limit(n)] :
                   plan \in LimitedPlans, n \in 1..MaxLimit}

NextActions ==
    /\ \E a \in Actors :
          \/ CheckUploadLimits(a)
          \/ CreateProject(a)
          \/ SendEvent(a)
          \/ CleanUp(a)
          \/ DeleteProject(a)
          \/ DeleteBlob(a)
          \/ RecordOrphanedBlob(a)
    /\ UNCHANGED <<project, wfVars, retryVars, callVars, txn, lastRename, libVars>>

SpecActions == InitActions /\ [][NextActions]_vars

\* the rename specification: any sequence of renames of one project
InitRename ==
    /\ project = NewProject
    /\ event \in StoreEvents
    /\ InitWorkflow({{}})
    /\ IdleRetry /\ IdleCalls /\ IdleCounter /\ IdleRename /\ IdleLib

NextRename ==
    /\ RenameAction \/ RenameActionV1
    /\ UNCHANGED <<wfVars, retryVars, callVars, ctrVars, libVars>>

SpecRename == InitRename /\ [][NextRename]_vars

\* the segmenter specification: transcripts built in up to MaxAppends steps
InitSegments ==
    /\ project = NewProject
    /\ event \in StoreEvents
    /\ InitWorkflow({{}})
    /\ IdleRetry /\ IdleCalls /\ IdleCounter /\ IdleRename /\ IdleLib

NextSegments ==
    /\ SegmentWords \/ NormalizeSegments
    /\ UNCHANGED <<project, wfVars, retryVars, callVars, ctrVars, lastRename>>

SpecSegments == InitSegments /\ [][NextSegments]_vars

\* the transcription client specification: one transcribeWithAssemblyAI call
InitTranscribe ==
    /\ project = NewProject
    /\ event \in StoreEvents
    /\ InitWorkflow({{}})
    /\ IdleRetry /\ IdleCalls /\ IdleCounter /\ IdleRename /\ IdleLib

NextTranscribe ==
    /\ \/ TranscribeWithAssemblyAI
       \/ RequireApiKey
       \/ StartTranscription
       \/ PollTranscription
    /\ UNCHANGED <<project, wfVars, retryVars, callVars, ctrVars, lastRename>>

SpecTranscribe == InitTranscribe /\ [][NextTranscribe]_vars

\* the same with progress: every await of the client settles (timers fire,
\* a fetch resolves, rejects or is aborted), so an enabled step is taken
SpecTranscribeFair == SpecTranscribe /\ WF_vars(NextTranscribe)

\* the summary specification: generateSummary on texts of up to MaxTextRuns runs
InitSummary ==
    /\ project = NewProject
    /\ event \in StoreEvents
    /\ InitWorkflow({{}})
    /\ IdleRetry /\ IdleCalls /\ IdleCounter /\ IdleRename /\ IdleLib

NextSummary ==
    /\ GenerateSummary
    /\ UNCHANGED <<project, wfVars, retryVars, callVars, ctrVars, lastRename>>

SpecSummary == InitSummary /\ [][NextSummary]_vars

\* the timestamp specification: segment starts of up to MaxSeconds seconds
InitTimestamps ==
    /\ project = NewProject
    /\ event \in StoreEvents
    /\ InitWorkflow({{}})
    /\ IdleRetry /\ IdleCalls /\ IdleCounter /\ IdleRename /\ IdleLib

NextTimestamps ==
    /\ GenerateYouTubeTimestamp
    /\ UNCHANGED <<project, wfVars, retryVars, callVars, ctrVars, lastRename>>

SpecTimestamps == InitTimestamps /\ [][NextTimestamps]_vars

(***************************************************************************)
(* Properties                                                              *)
(***************************************************************************)
Finished == pc = "done" /\ outcome \in {"returned", "rethrown"}

\* the project holds the output of job j, under any name of the field
HoldsOutput(p, j) ==
    \/ j \in p.content
    \/ j = "titles" /\ "title" \in p.content
    \/ j = "youtubeTimestamps" /\ "youtubeTimeStamps" \in p.content

\* C1: when exactly one generator k of the plan's jobs is forced to throw,
\* the finished run has persisted the output of every other generator, the
\* job-error map has an entry for k only, and the status is completed.
C1_PartialFailureIsolation ==
    \A k \in JobKeys :
        (Finished /\ k \in Jobs /\ injected = {k})
            => /\ \A j \in Jobs \ {k} : HoldsOutput(project, j)
               /\ project.jobErrors = {k}
               /\ project.status = "completed"

\* C2: a run that passed entry validation finishes in a terminal status:
\* completed when no step threw, failed when a step outside the fan-out threw.
C2_TerminalStatus ==
    Finished =>
        /\ project.status \in {"completed", "failed"}
        /\ thrownAt = "none" => project.status = "completed"
        /\ thrownAt # "none" => project.status = "failed"

\* C3: status completed implies contentGeneration completed.
C3_CompletedImpliesGenerationCompleted ==
    project.status = "completed"
        => project.jobStatus.contentGeneration = "completed"

StatusRank(st) ==
    IF st \in {"pending", "uploading"} THEN 0
    ELSE IF st = "processing" THEN 1 ELSE 2

\* C4: the status only moves forward, failed is entered only from
\* processing, and completed and failed are never left.
C4_StatusMonotonic ==
    [][/\ StatusRank(project'.status) >= StatusRank(project.status)
       /\ project.status \in {"completed", "failed"}
            => project'.status = project.status
       /\ (project'.status = "failed" /\ project.status # "failed")
            => project.status = "processing"]_vars

PlanJobs(plan) ==
    IF plan = "free" THEN {"summary"}
    ELSE IF plan = "pro" THEN {"summary", "socialPosts", "titles", "hashtags"}
    ELSE JobKeys

\* C5: the generate steps of a run are exactly the jobs of the plan: summary
\* for free, four jobs for pro, all six for ultra; no other generator runs.
C5_PlanGating ==
    /\ \A j \in JobKeys : results[j] # "none" => j \in PlanJobs(NormalizePlan(event.plan))
    /\ pc \in {"fan-out"} \cup PostSteps
         => {j \in JobKeys : results[j] # "none"} = PlanJobs(NormalizePlan(event.plan))

C5_Witness ==
    /\ event.plan = "pro"
    /\ pc = "save-generated-content"
    /\ \A j \in {"summary", "socialPosts", "titles", "hashtags"} : results[j] = "fulfilled"

FirstFive ==
    <<"update-project-status", "update-job-status-transcription",
      "generate-transcription", "save-transcription",
      "update-job-status-generation-running">>

\* C6: no step after the fan-out begins before every generate step has
\* settled, and steps 1-5 begin in their order, each after all the earlier.
C6_JoinBarrier ==
    /\ (pc \in PostSteps \/ Range(stepLog) \cap PostSteps # {})
         => \A j \in Jobs : results[j] \in {"fulfilled", "rejected"}
    /\ \A i \in 1..Len(stepLog) : \A k \in 1..5 :
         stepLog[i] = FirstFive[k]
            => i = k /\ \A m \in 1..k : stepLog[m] = FirstFive[m]
    /\ (\E j \in JobKeys : results[j] # "none") => Len(stepLog) >= 5

C6_Witness ==
    /\ event.plan = "ultra"
    /\ "save-generated-content" \in Range(stepLog)
    /\ results["summary"] = "rejected"
    /\ results["youtubeTimestamps"] = "fulfilled"

\* C10: generateSummary is invoked at most once in a run.
C10_SummaryOnce == summaryCalls <= 1

Created == Cardinality({p \in Creators : txn[p].phase = "done"})
NoDeleteYet == txn[Deleter].op = "none"

\* C7: once all creations have committed (and nothing was deleted), the
\* user's activeCount equals the number of creations and of project rows.
C7_CounterConsistency ==
    (NoDeleteYet /\ \A p \in Creators : txn[p].phase \in {"idle", "done"})
        => \/ Created = 0
           \/ /\ counter.exists
              /\ counter.activeCount = Created
              /\ counter.activeCount = countUserProjects(rows).activeCount

\* C8: a well-formed call of a mutating store operation by a caller who is
\* not the project's owner fails with an authorization error and leaves the
\* project unchanged.
C8_OwnershipEnforced ==
    [][(calls' = calls + 1 /\ project.exists /\ lastCall'.caller # project.userId
        /\ lastCall'.outcome # "validation_error")
          => (lastCall'.outcome = "unauthorized" /\ project' = project)]_vars

AllSpace(s) == \A i \in 1..Len(s) : IsSpace(s[i].ch)

\* the length of s without its leading and trailing whitespace
CoreLen(s) ==
    IF AllSpace(s) THEN 0
    ELSE LET nonSpace == {i \in 1..Len(s) : ~IsSpace(s[i].ch)}
             first == CHOOSE i \in nonSpace : \A k \in nonSpace : i <= k
             last == CHOOSE i \in nonSpace : \A k \in nonSpace : i >= k
         IN StrLen(SubSeq(s, first, last))

IsTrimmed(s) == s = <<>> \/ (~IsSpace(s[1].ch) /\ ~IsSpace(s[Len(s)].ch))

C11_OriginalErrorRethrown ==
    /\ outcome = "rethrown" => (thrownAt # "none" /\ raised = thrownAt)
    /\ outcome # "rethrown" => raised = "none"

\* a run whose save-job-error write failed after generate-transcription threw
C11_Witness ==
    /\ outcome = "rethrown"
    /\ thrownAt = "generate-transcription"
    /\ stepLog[Len(stepLog)] = "save-job-error"
    /\ project.jobErrors = {}
    /\ raised = "generate-transcription"

\* the number of words in the first k segments
RECURSIVE WordsBefore(_, _)
WordsBefore(segs, k) ==
    IF k = 0 THEN 0 ELSE WordsBefore(segs, k - 1) + Len(segs[k].words)

\* the index of the segment that holds the i-th valid word, 0 when none does
SegmentOf(segs, i) ==
    IF \E k \in 1..Len(segs) : WordsBefore(segs, k - 1) < i /\ i <= WordsBefore(segs, k)
    THEN CHOOSE k \in 1..Len(segs) :
             WordsBefore(segs, k - 1) < i /\ i <= WordsBefore(segs, k)
    ELSE 0

RECURSIVE Flatten(_)
Flatten(segs) == IF segs = <<>> THEN <<>> ELSE Head(segs).words \o Flatten(Tail(segs))

\* the text ends in . ! or ?, optionally followed by one closing quote or bracket
EndsInSentenceMark(text) ==
    \E n \in 1..Len(text) :
        /\ text[n].ch \in SentenceEnders
        /\ \/ n = Len(text)
           \/ n = Len(text) - 1 /\ text[Len(text)] \in {Run(c, 1) : c \in Closers}

\* C12: the segments hold the valid words in order, and two consecutive
\* valid words more than 1500 ms apart are in different segments.
C12_GapRule ==
    /\ Flatten(segments) = validWords(words)
    /\ \A i \in 1..(Len(validWords(words)) - 1) :
         validWords(words)[i + 1].start - validWords(words)[i].end > 1500
            => SegmentOf(segments, i) # SegmentOf(segments, i + 1)

\* a pause after a sentence end, and a pause after the 24th word of a segment
C12_Witness ==
    /\ \E i \in 1..(Len(words) - 1) :
         /\ words[i].text = KindText("end")
         /\ words[i + 1].start - words[i].end > WORD_SEGMENT_GAP_MS
    /\ Len(segments) >= 2

\* C13: a valid word that ends a sentence is the last word of its segment.
C13_SentenceBoundary ==
    \A k \in 1..Len(segments) :
        \A i \in 1..Len(segments[k].words) :
            EndsInSentenceMark(segments[k].words[i].word)
                => i = Len(segments[k].words)

\* a word ending in ?) closes a segment that the next word follows at once
C13_Witness ==
    /\ Len(segments) >= 2
    /\ Len(segments[1].words) >= 2
    /\ segments[1].words[Len(segments[1].words)].word = KindText("endClosed")
    /\ segments[2].start - segments[1].end <= WORD_SEGMENT_GAP_MS

\* C14: no segment holds more than 24 words.
C14_WordCap ==
    \A k \in 1..Len(segments) : Len(segments[k].words) <= 24

\* a segment was closed by the limit alone
C14_Witness ==
    /\ Len(segments) >= 2
    /\ Len(segments[1].words) = WORD_SEGMENT_MAX_WORDS
    /\ ~EndsInSentenceMark(segments[1].words[WORD_SEGMENT_MAX_WORDS].word)
    /\ segments[2].start - segments[1].end <= WORD_SEGMENT_GAP_MS

RateLimitError == poll.error.kind = "AssemblyAI poll failed (429) after retries"

\* C15: a poll answered 429 on every fetch is rejected after exactly
\* rateLimitMaxRetries retries, before the poll-attempt limit, with an error
\* that names the transcript id, the retry count and the response body.
C15_RateLimitExhaustion ==
    /\ (poll.pc = "poll" /\ poll.fetches > 0) => poll.fetches <= RATE_LIMIT_MAX_RETRIES
    /\ RateLimitError =>
         /\ poll.outcome = "rejected"
         /\ poll.fetches - 1 = RATE_LIMIT_MAX_RETRIES
         /\ poll.attempt < MAX_POLLS
         /\ {"transcriptId", "rateLimitMaxRetries", "body"} \subseteq poll.error.names

\* C16 as stated: for text that is empty after trimming the summary is
\* {full: the text, bullets: [], insights: [], tldr: the text} and the
\* language model is not called.
C16_SummaryFallbackAnyBlank ==
    (lastSummary.answer # "none" /\ AllSpace(lastSummary.text))
        => lastSummary.summary =
             Summary(lastSummary.text, <<>>, <<>>, lastSummary.text, FALSE)

\* C16, amended: for text that is empty after trimming the summary has
\* full = the text, no bullets, no insights, and tldr = the text when the
\* text has at most 240 characters and "..." when it is longer; the
\* language model is not called.
C16_SummaryFallback ==
    (lastSummary.answer # "none" /\ AllSpace(lastSummary.text))
        => lastSummary.summary =
             Summary(lastSummary.text, <<>>, <<>>,
                     IF StrLen(lastSummary.text) <= 240
                     THEN lastSummary.text ELSE <<Run(".", 3)>>,
                     FALSE)

\* the empty text, with a model that would have answered
C16_Witness ==
    /\ lastSummary.text = <<>>
    /\ lastSummary.answer = "tldr"
    /\ lastSummary.summary = Summary(<<>>, <<>>, <<>>, <<>>, FALSE)

\* the fields of a label, split at the colons
RECURSIVE Fields(_)
Fields(label) ==
    IF \A i \in 1..Len(label) : label[i] # ":" THEN <<label>>
    ELSE LET c == CHOOSE i \in 1..Len(label) :
                      label[i] = ":" /\ \A k \in 1..(i - 1) : label[k] # ":"
         IN <<SubSeq(label, 1, c - 1)>> \o Fields(SubSeq(label, c + 1, Len(label)))

DigitValue(ch) == (CHOOSE i \in 1..10 : DigitChars[i] = ch) - 1

\* the number a non-empty string of digits denotes
RECURSIVE Number(_)
Number(str) ==
    IF Len(str) = 1 THEN DigitValue(str[1])
    ELSE 10 * Number(SubSeq(str, 1, Len(str) - 1)) + DigitValue(str[Len(str)])

IsDigits(str) ==
    /\ str # <<>>
    /\ \A i \in 1..Len(str) : \E k \in 1..10 : DigitChars[k] = str[i]

\* digits without a leading zero, except for the number 0
IsPlainNumber(str) == IsDigits(str) /\ (Len(str) > 1 => str[1] # "0")

\* C17: the label of a segment starting at s whole seconds is M:SS when
\* s < 3600 and H:MM:SS otherwise, seconds (and minutes under hours) in two
\* digits, and it denotes s; 125 gives 2:05 and 3725 gives 1:02:05.
C17_TimestampFormat ==
    lastTimestamp.timestamp # <<>> =>
        LET s == lastTimestamp.start \div 1000
            f == Fields(lastTimestamp.timestamp)
        IN /\ \A i \in 1..Len(f) : IsDigits(f[i])
           /\ IsPlainNumber(f[1])
           /\ \A i \in 2..Len(f) : Len(f[i]) = 2 /\ Number(f[i]) < 60
           /\ IF s < 3600
              THEN Len(f) = 2 /\ Number(f[1]) * 60 + Number(f[2]) = s
              ELSE /\ Len(f) = 3
                   /\ Number(f[1]) * 3600 + Number(f[2]) * 60 + Number(f[3]) = s
           /\ s = 125 => lastTimestamp.timestamp = <<"2", ":", "0", "5">>
           /\ s = 3725 => lastTimestamp.timestamp = <<"1", ":", "0", "2", ":", "0", "5">>

C17_Witness ==
    /\ lastTimestamp.start = 3725999
    /\ lastTimestamp.timestamp = <<"1", ":", "0", "2", ":", "0", "5">>

\* C18: a project whose deletedAt is set still has its row, and no caller
\* gets it from getProject, getProjectById or listUserProjects.
C18_SoftDelete ==
    project.deletedAt =>
        /\ project.exists
        /\ \A identity \in Ids :
             /\ getProject(project, identity).docs = {}
             /\ getProjectById(project, identity).docs = {}
             /\ \A userId \in Ids : listUserProjects(project, identity, userId).docs = {}
        /\ legacyGetProjectById(project).docs = {}

\* the key the step table assigns to a step outside the fan-out
StepTableKey(label) ==
    IF label = "generate-transcription" \/ label = "save-transcription"
       \/ label = "update-job-status-transcription"
    THEN "transcript" ELSE "general"

\* C19: after a run that failed at step S, the project's job-error map has
\* an entry under the key the step table assigns to S.
C19_JobErrorRecorded ==
    (Finished /\ outcome = "rethrown")
        => StepTableKey(thrownAt) \in project.jobErrors

\* C20: after a run that failed at step S the project's top-level error
\* names S in its step field, and a top-level error is present only after
\* a run that failed.
C20_ErrorStep ==
    /\ (Finished /\ outcome = "rethrown") => project.error = thrownAt
    /\ project.error # "none" => outcome = "rethrown"

\* C21: in a podcastProcessor run, contentGeneration running or completed,
\* or project status completed, implies jobStatus.transcription completed.
C21_TranscriptionCompleted ==
    (\/ project.jobStatus.contentGeneration \in {"running", "completed"}
     \/ project.status = "completed")
        => project.jobStatus.transcription = "completed"

\* C22: a finished run in which no step and no generator was made to fail
\* has status completed and holds the output of every job of its plan.
C22_HappyPath ==
    (Finished /\ injected = {})
        => /\ outcome = "returned"
           /\ project.status = "completed"
           /\ \A j \in PlanJobs(NormalizePlan(event.plan)) : HoldsOutput(project, j)

\* the error of pollTranscription when the attempts are used up
PollTimeoutError == poll.error.kind = "AssemblyAI transcription timed out"

PollBounded ==
    /\ poll.evaluations <= MAX_POLLS
    /\ poll.pc = "poll" => poll.evaluations = poll.attempt /\ poll.attempt < MAX_POLLS
    /\ poll.outcome = "resolved" <=> poll.answer = "completed"
    /\ poll.answer \in {"error", "not_ok"} =>
          /\ poll.pc = "done" /\ poll.outcome = "rejected"
          /\ poll.error.kind = IF poll.answer = "error"
                               THEN "AssemblyAI transcription failed"
                               ELSE "AssemblyAI poll failed"
    /\ PollTimeoutError <=>
          (poll.answer = "processing" /\ poll.evaluations = MAX_POLLS)
    /\ PollTimeoutError => poll.pc = "done" /\ poll.attempt = MAX_POLLS

\* C23: pollTranscription terminates; it resolves exactly on a poll that
\* reports completed, rejects at once on a poll that reports error or a
\* response that is not ok, rejects with the timeout error exactly when
\* MAX_POLLS polls were evaluated without an end, and never evaluates more.
C23_PollTerminates == [](PollBounded) /\ <>(poll.pc = "done")
C23_Witness == PollTimeoutError /\ poll.evaluations = MAX_POLLS /\ poll.attempt = MAX_POLLS

\* C24: a call whose audioUrl is empty, blank or not an absolute URL is
\* rejected before the API key is read and before any request is issued.
C24_UrlValidatedFirst ==
    (poll.pc # "call" /\ poll.audioUrl # "absolute")
        => /\ poll.pc = "done" /\ poll.outcome = "rejected"
           /\ ~poll.keyRead /\ ~poll.requested
\* C25: a run rejected at entry for an invalid event has run no step, has
\* written nothing to the store and is not invoked again by the host.
C25_EntryFailureFinal ==
    ~ValidEvent(event)
        => /\ stepLog = <<>> /\ project = NewProject
           /\ pc = "done" => outcome = "rejected"
           /\ invocations = 1
\* this step is a direct call of op that the store accepted
Accepted(op) ==
    calls' = calls + 1 /\ lastCall'.op = op /\ lastCall'.outcome = "ok"

\* this step is the step label of podcastProcessor, and it did not throw
StepDone(label, next) == pc = label /\ pc' = next

\* C26: an accepted saveJobErrors, direct or from step save-job-errors, keeps
\* every error entry the project already had.
C26_JobErrorsMerge ==
    [][(Accepted("saveJobErrors")
        \/ StepDone("save-job-errors", "update-job-status-generation-completed"))
          => project.jobErrors \subseteq project'.jobErrors]_vars

\* C27: an accepted updateJobStatus leaves the field it was not given, and
\* every field of the project outside jobStatus, as they were.
C27_JobStatusMerge ==
    [][/\ Accepted("updateJobStatus") =>
            /\ lastCall'.args[1] = "none" =>
                  project'.jobStatus.transcription = project.jobStatus.transcription
            /\ lastCall'.args[1] # "none" =>
                  project'.jobStatus.transcription = lastCall'.args[1]
            /\ lastCall'.args[2] = "none" =>
                  project'.jobStatus.contentGeneration = project.jobStatus.contentGeneration
            /\ lastCall'.args[2] # "none" =>
                  project'.jobStatus.contentGeneration = lastCall'.args[2]
            /\ [project' EXCEPT !.jobStatus = project.jobStatus] = project
       /\ StepDone("update-job-status-transcription", "generate-transcription") =>
            /\ project'.jobStatus.contentGeneration = project.jobStatus.contentGeneration
            /\ [project' EXCEPT !.jobStatus = project.jobStatus] = project
       /\ (\/ StepDone("update-job-status-generation-running", "fan-out")
           \/ StepDone("update-job-status-generation-completed",
                       "update-project-status-completed")) =>
            /\ project'.jobStatus.transcription = project.jobStatus.transcription
            /\ [project' EXCEPT !.jobStatus = project.jobStatus] = project]_vars
C27_Witness ==
    /\ lastCall.op = "updateJobStatus" /\ lastCall.outcome = "ok"
    /\ lastCall.args = <<"none", "completed">>
    /\ pc = "generate-transcription"
    /\ project.jobStatus = [transcription |-> "processing", contentGeneration |-> "completed"]
\* the local fallback summary of a text
FallbackSummary(text, requested) ==
    Summary(text, <<>>, <<>>, buildFallbackTldr(text), requested)

\* C28: whatever the model invocation does, generateSummary returns a summary
\* whose full is the transcript text; the summary job is fulfilled, so no
\* summary entry goes to the job-error map. When the invocation threw or no
\* API key is set, the summary is the local fallback.
C28_SummaryNeverFails ==
    lastSummary.answer # "none"
        => /\ ~lastSummary.threw
           /\ lastSummary.job = "fulfilled"
           /\ lastSummary.summary.full = lastSummary.text
           /\ (lastSummary.summary.requested
               /\ lastSummary.answer \in {"no_key", "timeout", "network_error",
                                          "not_ok", "empty_content"})
                 => lastSummary.summary = FallbackSummary(lastSummary.text, TRUE)
C28_Witness ==
    /\ lastSummary.answer = "timeout"
    /\ lastSummary.modelError = "OpenAI request timed out"
    /\ lastSummary.text = <<Run("a", 1)>>
    /\ lastSummary.job = "fulfilled"
    /\ lastSummary.summary = FallbackSummary(<<Run("a", 1)>>, TRUE)

\* C29 as stated: on a response that is not ok the summary generator throws
\* and the summary job is rejected.
C29_NotOkRejectsJob ==
    (lastSummary.answer = "not_ok" /\ lastSummary.summary.requested)
        => lastSummary.threw /\ lastSummary.job = "rejected"

\* C29: on a response that is not ok the model request throws, generateSummary
\* catches the error and returns the local fallback; the summary job is
\* fulfilled.
C29_NotOkFallsBack ==
    (lastSummary.answer = "not_ok" /\ trim(lastSummary.text) # <<>>)
        => /\ lastSummary.modelError = "Summary model request failed"
           /\ ~lastSummary.threw
           /\ lastSummary.job = "fulfilled"
           /\ lastSummary.summary = FallbackSummary(lastSummary.text, TRUE)
C29_Witness ==
    /\ lastSummary.answer = "not_ok"
    /\ lastSummary.text = <<Run("a", FallbackTldrLimit), Run("a", 1)>>
    /\ lastSummary.modelError = "Summary model request failed"
    /\ lastSummary.job = "fulfilled"
    /\ lastSummary.summary.tldr = <<Run("a", FallbackTldrSlice), Run(".", 3)>>
\* the counters before a mutation, a missing row read as the count of rows
CountersOf(c, rs) == IF c.exists THEN c ELSE countUserProjects(rs)

\* the effect on the counters of the mutation that commits in this step
CounterStep(p) ==
    (txn[p].phase = "open" /\ txn'[p].phase = "done") =>
        IF txn[p].op = "create"
        THEN /\ counter'.totalCount = CountersOf(counter, rows).totalCount + 1
             /\ counter'.activeCount = CountersOf(counter, rows).activeCount + 1
        ELSE IF ~rows[txn[p].target].deleted
        THEN /\ counter'.totalCount = counter.totalCount
             /\ counter'.activeCount = counter.activeCount - 1
        ELSE counter' = counter

CountersMatchRows ==
    counter.exists =>
        /\ counter.activeCount = countUserProjects(rows).activeCount
        /\ counter.totalCount = countUserProjects(rows).totalCount

\* C30: each committed creation raises both counters by one (a missing
\* counter row counting as the number of rows), each first delete lowers
\* activeCount by one, a repeated delete changes nothing; the counters
\* always equal the numbers of non-deleted and of all project rows.
C30_CounterLifecycle ==
    [](CountersMatchRows) /\ [][\A p \in Procs : CounterStep(p)]_vars

\* the owner's rename of project p
RenameOf(p) == updateProjectDisplayName(p, Owner, Owner, NewName)

\* the workflow's write W gives the same answer before and after the rename,
\* and write and rename give the same project in either order
Commutes(W(_), p) ==
    /\ W(RenameOf(p).project).outcome = W(p).outcome
    /\ RenameOf(W(p).project).outcome = RenameOf(p).outcome
    /\ W(RenameOf(p).project).project = RenameOf(W(p).project).project

\* the workflow's status writes on project p, as the steps call them
WorkflowWritesCommute(p) ==
    /\ \A status \in Statuses :
          Commutes(LAMBDA q : updateProjectStatus(q, NoId, Owner, status), p)
    /\ \A a \in JobStatusArgs :
          Commutes(LAMBDA q : updateJobStatus(q, NoId, Owner, a[1], a[2]), p)
    /\ Commutes(LAMBDA q : saveTranscript(q, NoId, Owner), p)
    /\ \A content \in ContentArgs :
          Commutes(LAMBDA q : saveGeneratedContent(q, NoId, Owner, content), p)

\* C31: wherever the owner's rename falls among the workflow's writes, it is
\* accepted and changes the displayName alone, every later state keeps the
\* new name, and each workflow write gives the same project before or after
\* the rename.
C31_RenameNoConflict ==
    /\ WorkflowWritesCommute(project)
    /\ project.exists =>
          /\ RenameOf(project).outcome = "ok"
          /\ RenameOf(project).project = [project EXCEPT !.displayName = trim(NewName)]
    /\ (lastCall.op = "updateProjectDisplayName" /\ lastCall.outcome = "ok")
          => project.displayName = trim(NewName)
C31_Witness ==
    /\ lastCall.op = "updateProjectDisplayName" /\ lastCall.outcome = "ok"
    /\ Finished /\ outcome = "returned"
    /\ project.displayName = trim(NewName)
    /\ project.status = "completed" /\ project.transcript
    /\ project.jobStatus.contentGeneration = "completed"
    /\ "summary" \in project.content

\* C32: a podcastRetryJob run that returned has regenerated and persisted the
\* output of the job its event names, whichever job that is.
C32_RetryRegenerates ==
    routcome = "returned" => \E j \in JobKeys : HoldsOutput(project, j)

\* executing write W on the result of W gives the answer and project of W
Idempotent(W(_), p) == W(W(p).project) = W(p)

\* the step writes of the orchestrator on project p, with the same inputs
StepWritesIdempotent(p) ==
    /\ \A status \in Statuses :
          Idempotent(LAMBDA q : updateProjectStatus(q, NoId, Owner, status), p)
    /\ \A a \in JobStatusArgs :
          Idempotent(LAMBDA q : updateJobStatus(q, NoId, Owner, a[1], a[2]), p)
    /\ Idempotent(LAMBDA q : saveTranscript(q, NoId, Owner), p)
    /\ \A content \in ContentArgs \cup {generatedContent} :
          Idempotent(LAMBDA q : saveGeneratedContent(q, NoId, Owner, content), p)
    /\ \A keys \in JobErrorArgs \cup {jobErrors} :
          Idempotent(LAMBDA q : saveJobErrors(q, NoId, Owner, keys), p)

\* the workflow-facing writes of the store
StepWriteOps ==
    {"updateProjectStatus", "updateJobStatus", "saveTranscript",
     "saveGeneratedContent", "saveJobErrors"}

\* C33: in every state, executing a step's store write twice with the same
\* inputs leaves the project as executing it once (timestamps apart), and no
\* such write changes the counters.
C33_StepIdempotency ==
    /\ [](StepWritesIdempotent(project))
    /\ [][(calls' = calls + 1 /\ lastCall'.op \in StepWriteOps)
            => UNCHANGED <<rows, counter, registry>>]_vars
C33_Witness ==
    /\ lastCall.op = "updateProjectStatus" /\ lastCall.outcome = "ok"
    /\ pc = "update-project-status-completed"
    /\ project.status = "processing"
    /\ updateProjectStatus(project, NoId, Owner, "processing").project = project

\* the answers of the six workflow-facing mutations to one caller, each with
\* arguments its validator accepts
WorkflowFacingAnswers(p, identity, systemUserId) ==
    {updateProjectStatus(p, identity, systemUserId, "processing").outcome,
     updateJobStatus(p, identity, systemUserId, "processing", "none").outcome,
     saveTranscript(p, identity, systemUserId).outcome,
     saveGeneratedContent(p, identity, systemUserId, {"summary"}).outcome,
     saveJobErrors(p, identity, systemUserId, {"summary"}).outcome,
     recordError(p, identity, systemUserId, "manual").outcome}

\* C38: on an existing project each workflow-facing mutation accepts an
\* authenticated caller exactly when the identity is the owner, whatever
\* systemUserId says, and an unauthenticated caller exactly when systemUserId
\* is the owner's id; every other call is rejected as unauthorized.
C38_IdentityPrecedence ==
    project.exists =>
        \A identity \in Ids, systemUserId \in Ids :
            WorkflowFacingAnswers(project, identity, systemUserId) =
                IF \/ identity # NoId /\ identity = project.userId
                   \/ identity = NoId /\ systemUserId = project.userId
                THEN {"ok"} ELSE {"unauthorized"}
C38_Witness ==
    /\ lastCall.op = "saveTranscript"
    /\ lastCall.caller = Stranger /\ lastCall.outcome = "unauthorized"
    /\ ~project.transcript
    /\ saveTranscript(project, Stranger, Owner).outcome = "unauthorized"
    /\ saveTranscript(project, NoId, Owner).outcome = "ok"

\* the stores deleteProject can run on: up to two project rows of the user
\* and a counter row, present or missing
CounterViews ==
    [rows : SeqsUpTo({[deleted |-> FALSE], [deleted |-> TRUE]}, 2),
     counter : {NoCounter} \cup [exists : {TRUE}, totalCount : 0..2, activeCount : 0..2],
     registry : BOOLEAN]

\* the counter part of a soft delete of row i: the row is marked, activeCount
\* falls by one when it is positive, nothing else changes
DeleteFrame(view, i) ==
    LET after == deleteProjectTxn(view, i)
    IN IF view.rows[i].deleted THEN after = view
       ELSE /\ after.rows = [view.rows EXCEPT ![i].deleted = TRUE]
            /\ after.registry = view.registry
            /\ after.counter.totalCount = view.counter.totalCount
            /\ after.counter.exists = view.counter.exists
            /\ after.counter.activeCount =
                 IF view.counter.exists /\ view.counter.activeCount > 0
                 THEN view.counter.activeCount - 1 ELSE view.counter.activeCount

\* the workflow's writes are accepted on project p and do what they do on a
\* project that is not deleted
StillApplies(p) ==
    LET live == [p EXCEPT !.deletedAt = FALSE]
        Same(W(_)) == W(p).outcome = "ok"
                      /\ [W(p).project EXCEPT !.deletedAt = FALSE] = W(live).project
    IN /\ Same(LAMBDA q : updateProjectStatus(q, NoId, Owner, "completed"))
       /\ Same(LAMBDA q : updateJobStatus(q, NoId, Owner, "none", "completed"))
       /\ Same(LAMBDA q : saveTranscript(q, NoId, Owner))
       /\ Same(LAMBDA q : saveGeneratedContent(q, NoId, Owner, {"summary"}))
       /\ Same(LAMBDA q : saveJobErrors(q, NoId, Owner, {"summary"}))
       /\ Same(LAMBDA q : recordError(q, NoId, Owner, "manual"))

\* C39: an accepted deleteProject changes the project's deletedAt alone; on
\* the counters it lowers activeCount only; the workflow's mutations are still
\* accepted on the soft-deleted project.
C39_DeleteFrame ==
    /\ [](/\ \A view \in CounterViews : \A i \in 1..Len(view.rows) : DeleteFrame(view, i)
          /\ (project.exists /\ project.deletedAt) => StillApplies(project))
    /\ [][Accepted("deleteProject") => project' = [project EXCEPT !.deletedAt = TRUE]]_vars
C39_Witness ==
    /\ lastCall.op = "deleteProject" /\ lastCall.outcome = "ok"
    /\ project.deletedAt
    /\ Finished /\ outcome = "returned"
    /\ project.status = "completed" /\ project.transcript
    /\ "summary" \in project.content

\* the input words that have a string text and numeric start and end, in the
\* input's order, as transcript words
ValidInputWords ==
    LET typed == SelectSeq(words, LAMBDA w : {"text", "start", "end"} \subseteq w.defined)
    IN [i \in 1..Len(typed) |->
          [word |-> typed[i].text, start |-> typed[i].start, end |-> typed[i].end]]

\* C40: the segments are non-empty, numbered 0..n-1 in order, each runs from
\* its first word's start to its last word's end, and their words, put end
\* to end, are the valid input words in the input's order.
C40_SegmentPartition ==
    /\ Flatten(segments) = ValidInputWords
    /\ \A k \in 1..Len(segments) :
          /\ segments[k].words # <<>>
          /\ segments[k].id = k - 1
          /\ segments[k].start = segments[k].words[1].start
          /\ segments[k].end = segments[k].words[Len(segments[k].words)].end
C40_Witness ==
    /\ Len(segments) >= 3
    /\ \E i \in 1..Len(words) : ~IsValidWord(words[i])
    /\ Len(ValidInputWords) < Len(words)
    /\ Len(ValidInputWords) > Len(segments)

\* the provider's sentences that have a string text and numeric start and end
ValidSentences == SelectSeq(normalized.given.items, IsValidSegment)

\* C35: when the provider answer holds at least one valid sentence, the
\* segments are exactly the valid sentences in the provider's order, numbered
\* 0..n-1, and the words are not grouped; only with no valid sentence are
\* the segments those of mapWordsToWordSegments.
C35_SentencePrecedence ==
    normalized.done =>
        IF normalized.given.isArray /\ ValidSentences # <<>>
        THEN /\ Len(normalized.segments) = Len(ValidSentences)
             /\ \A k \in 1..Len(ValidSentences) :
                   /\ normalized.segments[k].id = k - 1
                   /\ normalized.segments[k].text = ValidSentences[k].text
                   /\ normalized.segments[k].start = ValidSentences[k].start
                   /\ normalized.segments[k].end = ValidSentences[k].end
        ELSE normalized.segments = segments
C35_Witness ==
    /\ normalized.done
    /\ Len(segments) >= 2
    /\ Len(normalized.given.items) = 2
    /\ ~IsValidSegment(normalized.given.items[1])
    /\ Len(ValidSentences) = 1
C35_WitnessWords ==
    /\ normalized.done
    /\ Len(segments) >= 2
    /\ normalized.given.items # <<>>
    /\ ValidSentences = <<>>
    /\ normalized.segments = segments

\* the calls of an operation that have returned
ReturnedCalls(op) == {a \in Actors : act.call[a].op = op /\ act.call[a].pc = "done"}

\* a deleteProjectAction call has taken the project as its target
DeleteCalled(projectId) ==
    \E b \in Actors : act.call[b].op = "delete" /\ act.call[b].projectId = projectId

\* C34: a returned createProjectAction either reports success, has sent the
\* event within 3 attempts and its project is active (unless the user has
\* called deleteProjectAction on it), or reports failure, has sent no event
\* and has left no active project.
C34_BothOrNeither ==
    \A a \in ReturnedCalls("create") :
        LET c == act.call[a]
        IN \/ /\ c.result = "success"
              /\ c.sent /\ c.attempt + 1 <= maxAttempts
              /\ c.projectId \in 1..Len(rows)
              /\ ~rows[c.projectId].deleted \/ DeleteCalled(c.projectId)
           \/ /\ c.result = "failure"
              /\ ~c.sent
              /\ c.projectId = 0 \/ rows[c.projectId].deleted

\* C36 as stated: a deleteProjectAction that returns the partial failure has
\* recorded the orphaned blob on the project.
C36_OrphanRecorded ==
    \A a \in ReturnedCalls("delete") :
        act.call[a].result = "partial" => act.call[a].projectId \in act.orphanedBlob

\* C36: once deleteProject has answered, the project is soft-deleted whatever
\* becomes of the blob; del is called at most 3 times and not again after it
\* succeeded; the call returns success exactly when del succeeded, and after
\* 3 failures it calls recordOrphanedBlob once and returns the partial
\* failure, with orphanedBlob on the project when that mutation succeeded.
C36_BlobCleanup ==
    \A a \in Actors :
        LET c == act.call[a]
        IN c.op = "delete" /\ c.pc # "idle" =>
              /\ c.attempt <= maxAttempts
              /\ c.deleted => c.pc = "done"
              /\ c.pc \in {"del", "recordOrphanedBlob"} \/ c.result \in {"success", "partial"}
                    => rows[c.projectId].deleted
              /\ c.result = "success" <=> c.deleted
              /\ c.pc = "recordOrphanedBlob" => c.attempt = maxAttempts /\ c.recorded = "no"
              /\ c.result = "partial" =>
                    /\ c.attempt = maxAttempts /\ ~c.deleted
                    /\ c.recorded \in {"yes", "failed"}
                    /\ c.recorded = "yes" => c.projectId \in act.orphanedBlob
              /\ c.result = "failure" => c.attempt = 0
C36_Witness ==
    \E a \in Actors :
        /\ act.call[a].op = "delete" /\ act.call[a].result = "partial"
        /\ act.call[a].recorded = "failed"
        /\ act.call[a].projectId \notin act.orphanedBlob
        /\ rows[act.call[a].projectId].deleted

\* the projects that count against the plan: all for free, the active for pro
CountedProjects ==
    IF act.plan = "free" THEN countUserProjects(rows).totalCount
    ELSE countUserProjects(rows).activeCount

\* C37: on a plan with a project limit the user's counted projects never
\* exceed maxProjects.
C37_QuotaHolds == act.limits.limited => CountedProjects <= act.limits.maxProjects
====
